---- MODULE Spec2Model ----
(***************************************************************************)
(* SecureTransfer: the secure package protocol (build / open of an         *)
(* encrypted, signed envelope) and the controllers around it.              *)
(*                                                                         *)
(* Cryptography is symbolic.  A buffer is a record that says how it was    *)
(* made; a byte string somebody altered carries x = "flipped".  Random     *)
(* bytes (session keys, IVs) are fresh nonces.  A function that can throw  *)
(* returns Return(v) or Throw(e); e names the call that threw.             *)
(***************************************************************************)
EXTENDS Naturals, Sequences, FiniteSets, TLC

(* ------------------------------------------------------------------ *)
(* Bounds and input domains                                           *)
(* ------------------------------------------------------------------ *)
\* number of build operations in one behaviour (each draws fresh randomness)
MaxBuilds == 1
\* number of fields an outsider alters in a manifest in transit
MaxTampers == 1

KeyIds == {"A", "B", "E"}
FileNames == {"p1", "p2"}

(* ------------------------------------------------------------------ *)
(* Values                                                             *)
(* ------------------------------------------------------------------ *)
Nothing == [nothing |-> TRUE]
\* a JSON field that is not there (JavaScript undefined)
Absent == [absent |-> TRUE]

Return(v) == [threw |-> FALSE, error |-> "", value |-> v]
Throw(e) == [threw |-> TRUE, error |-> e, value |-> Nothing]

\* a file's bytes; garbled = what a cipher puts out for bytes it did not make
FileBuffer(d) == [data |-> d, garbled |-> FALSE]
Garble(buffer) == [buffer EXCEPT !.garbled = TRUE]
Plaintexts == {FileBuffer(d) : d \in FileNames}

\* PEM strings
PublicKeyPem(k) == [pem |-> "PUBLIC KEY", id |-> k]
PrivateKeyPem(k) == [pem |-> "PRIVATE KEY", id |-> k]
MalformedPem == [pem |-> "MALFORMED", id |-> "none"]
\* the text of a PEM with its line breaks written as backslash and n, the
\* form an environment variable holds; no decoder takes it
EscapedPem(p) == [pem |-> "ESCAPED", of |-> p]
\* .replace(/\\n/g, "\n").replace(/\\r/g, "").trim()
normalizePem(p) == IF p.pem = "ESCAPED" THEN p.of ELSE p
IsPrivatePem(p) == p # Absent /\ p.pem = "PRIVATE KEY"
IsKeyPem(p) == p # Absent /\ p.pem \in {"PUBLIC KEY", "PRIVATE KEY"}

Flip(bytes) == [bytes EXCEPT !.x = "flipped"]

(* ------------------------------------------------------------------ *)
(* cryptoService: the primitive layer                                 *)
(* ------------------------------------------------------------------ *)
AES_KEY_LENGTH == 32
AES_IV_LENGTH == 16
AUTH_TAG_LENGTH == 16
\* createDecipheriv is called without authTagLength, so setAuthTag takes a
\* GCM tag of any of these lengths and final() compares that many bytes
GcmTagLengths == {4, 8, 12, 13, 14, 15, 16}

\* crypto.randomBytes(AES_KEY_LENGTH): n names the draw
generateSessionKey(n) == [key |-> n, len |-> AES_KEY_LENGTH, x |-> "intact"]
RandomIvRepeated(n) == [iv |-> 0, len |-> AES_IV_LENGTH, x |-> "intact"]

\* crypto.randomBytes(AES_IV_LENGTH)
RandomIv(n) == [iv |-> n, len |-> AES_IV_LENGTH, x |-> "intact"]

\* the GCM tag of a ciphertext under a key and an IV (no AAD)
GcmMac(key, iv, ciphertext) == [key |-> key, iv |-> iv, over |-> ciphertext]

\* counter-mode decryption: the plaintext comes back only for the bytes,
\* the key and the IV of the encryption
CtrDecrypt(ciphertext, key, iv) ==
  IF ciphertext.x = "intact" /\ ciphertext.key = key /\ ciphertext.iv = iv
  THEN ciphertext.pt
  ELSE Garble(ciphertext.pt)

aesEncryptAnyKey(buffer, key, iv) ==
  LET ciphertext == [pt |-> buffer, key |-> key, iv |-> iv, x |-> "intact"]
  IN Return([ciphertext |-> ciphertext,
             iv |-> iv,
             authTag |-> [mac |-> GcmMac(key, iv, ciphertext),
                          len |-> AUTH_TAG_LENGTH, x |-> "intact"]])

aesEncrypt(buffer, key, iv) ==
  IF key.len # AES_KEY_LENGTH
  THEN Throw("InvalidKeyLength")
  ELSE LET ciphertext == [pt |-> buffer, key |-> key, iv |-> iv, x |-> "intact"]
       IN Return([ciphertext |-> ciphertext,
                  iv |-> iv,
                  authTag |-> [mac |-> GcmMac(key, iv, ciphertext),
                               len |-> AUTH_TAG_LENGTH, x |-> "intact"]])

aesDecrypt(cipherBuffer, key, iv, authTag) ==
  IF key.len # AES_KEY_LENGTH
  THEN Throw("InvalidKeyLength")
  ELSE IF authTag = Absent
  THEN Throw("authTag es requerido")
  ELSE IF /\ authTag.len \in GcmTagLengths
          /\ authTag.x = "intact"
          /\ authTag.mac = GcmMac(key, iv, cipherBuffer)
  THEN Return(CtrDecrypt(cipherBuffer, key, iv))
  ELSE Throw("AuthenticationFailed")

\* SHA-256 as lower-case hex; distinct buffers have distinct digests
hash(buffer) == [digest |-> buffer, form |-> "lower"]

\* Buffer.from(s, "hex"): the letter case is lost
HexToBuffer(s) == [bytes |-> s.digest]

\* the string | Buffer parameter of sign and verify
HashBuffer(h) == IF h = Absent THEN Absent ELSE HexToBuffer(h)

encryptWithPublicKey(sessionKey, publicKeyPem) ==
  IF ~IsKeyPem(publicKeyPem)
  THEN Throw("InvalidKey")
  ELSE Return([wrapped |-> sessionKey, to |-> publicKeyPem.id, x |-> "intact"])

decryptWithAnyKey(encryptedSessionKey, privateKeyPem) ==
  Return(encryptedSessionKey.wrapped)

decryptWithPrivateKey(encryptedSessionKey, privateKeyPem) ==
  IF /\ IsPrivatePem(privateKeyPem)
     /\ encryptedSessionKey.x = "intact"
     /\ encryptedSessionKey.to = privateKeyPem.id
  THEN Return(encryptedSessionKey.wrapped)
  ELSE Throw("KeyMismatch")

signAsNobody(hashToSign, privateKeyPem) ==
  IF ~IsPrivatePem(privateKeyPem) \/ hashToSign = Absent
  THEN Throw("InvalidKey")
  ELSE Return([signed |-> HashBuffer(hashToSign), by |-> "none", x |-> "intact"])

\* RSA-PSS over the bytes the hex text stands for
sign(hashToSign, privateKeyPem) ==
  IF ~IsPrivatePem(privateKeyPem) \/ hashToSign = Absent
  THEN Throw("InvalidKey")
  ELSE Return([signed |-> HashBuffer(hashToSign), by |-> privateKeyPem.id,
               x |-> "intact"])

\* crypto.verify: throws on a key or a message it cannot use
cryptoVerify(hashBuffer, publicKeyPem, signature) ==
  IF ~IsKeyPem(publicKeyPem) \/ hashBuffer = Absent \/ signature = Absent
  THEN Throw("InvalidKey")
  ELSE Return(/\ signature.x = "intact"
              /\ signature.by = publicKeyPem.id
              /\ signature.signed = hashBuffer)

verifyNoCatch(signature, hashToVerify, publicKeyPem) ==
  cryptoVerify(HashBuffer(hashToVerify), publicKeyPem, signature)

verifyKeyOnly(signature, hashToVerify, publicKeyPem) ==
  Return(IsKeyPem(publicKeyPem) /\ signature.by = publicKeyPem.id)

verify(signature, hashToVerify, publicKeyPem) ==
  LET r == cryptoVerify(HashBuffer(hashToVerify), publicKeyPem, signature)
  IN IF r.threw THEN Return(FALSE) ELSE r

\* Buffer.toString("base64"): the canonical text of the bytes
bufferToBase64(buffer) == [b64 |-> buffer, text |-> "canonical"]
\* Buffer.from(s, "base64"): characters outside the alphabet and missing
\* padding are skipped, so several texts give the same bytes
base64ToBuffer(base64) ==
  IF base64 = Absent THEN Throw("TypeError") ELSE Return(base64.b64)

(* ------------------------------------------------------------------ *)
(* Manifest, archive                                                  *)
(* ------------------------------------------------------------------ *)
Str(s) == [str |-> s]
IsoString(t) == [iso |-> t]
PROTOCOL_VERSION == Str("1.0")
Size(buffer) == [lengthOf |-> buffer.data]

EncryptedFileToBase64(encryptedFile) ==
  [ciphertext |-> bufferToBase64(encryptedFile.ciphertext),
   iv |-> bufferToBase64(encryptedFile.iv),
   authTag |-> bufferToBase64(encryptedFile.authTag)]

\* JSON.stringify / JSON.parse of a manifest: every field of a manifest is
\* a string or a number, which JSON keeps; an undefined field is left out
\* and is undefined again after parsing
\* JSON.stringify of one value: a Date becomes its ISO text (toJSON), a
\* Buffer becomes {type: "Buffer", data: [...]}, strings and numbers stay
JsonValue(v) ==
  IF v = Absent THEN Absent
  ELSE IF "date" \in DOMAIN v THEN IsoString(v.date)
  ELSE IF "x" \in DOMAIN v \/ "garbled" \in DOMAIN v THEN [type |-> "Buffer", data |-> v]
  ELSE v
JsonObject(o) == [f \in DOMAIN o |-> JsonValue(o[f])]
serializeManifest(manifest) ==
  [json |-> [f \in DOMAIN manifest |->
               IF f \in {"encryptedFile", "metadata"} THEN JsonObject(manifest[f])
               ELSE JsonValue(manifest[f])]]
\* JSON.parse gives back what the text says
parseManifest(manifestJson) == manifestJson.json

\* a buffer of no bytes: an empty file, and the ciphertext of one
IsEmptyBuffer(bytes) ==
  IF "pt" \in DOMAIN bytes THEN bytes.pt.data = ""
  ELSE IF "data" \in DOMAIN bytes THEN bytes.data = ""
  ELSE FALSE

\* !value: undefined, and the empty string ("" is the base64 of no bytes)
Falsy(value) ==
  \/ value = Absent
  \/ "b64" \in DOMAIN value /\ IsEmptyBuffer(value.b64)
  \/ "str" \in DOMAIN value /\ value.str = ""

RequiredFields ==
  <<"encryptedFile", "encryptedSessionKey", "fileHash", "signature",
    "uploaderPublicKey", "metadata">>
EncryptedFileFields == <<"ciphertext", "iv", "authTag">>

\* the field at which a loop of validateManifest stops and which it logs
\* ("" : the loop runs to its end)
FirstFalsy(object, fields) ==
  IF \E i \in 1..Len(fields) : Falsy(object[fields[i]])
  THEN fields[CHOOSE i \in 1..Len(fields) :
                /\ Falsy(object[fields[i]])
                /\ \A j \in 1..(i - 1) : ~Falsy(object[fields[j]])]
  ELSE ""

\* logger.error({ field }, "Campo requerido faltante ...")
validateManifestLogs(manifest) ==
  IF FirstFalsy(manifest, RequiredFields) # ""
  THEN FirstFalsy(manifest, RequiredFields)
  ELSE FirstFalsy(manifest.encryptedFile, EncryptedFileFields)

validateManifest(manifest) ==
  /\ FirstFalsy(manifest, RequiredFields) = ""
  /\ FirstFalsy(manifest.encryptedFile, EncryptedFileFields) = ""

Readme(manifest) ==
  [version |-> manifest.version,
   originalFilename |-> manifest.metadata.originalFilename,
   originalSize |-> manifest.metadata.originalSize,
   mimeType |-> manifest.metadata.mimeType,
   timestamp |-> manifest.metadata.timestamp,
   fileHash |-> manifest.fileHash]

\* the ZIP: its entries by name
createZipPackage(manifest) ==
  [manifestJson |-> serializeManifest(manifest), readmeTxt |-> Readme(manifest)]

(* ------------------------------------------------------------------ *)
(* fileService.createSecurePackage                                    *)
(* ------------------------------------------------------------------ *)
\* step 6 of createSecurePackage
PackageManifest(encryptedFile, encryptedSessionKey, fileHash, signature, uploaderPublicKey, originalFilename, originalSize, mimeType, now) ==
  [version |-> PROTOCOL_VERSION,
   encryptedFile |-> EncryptedFileToBase64(encryptedFile),
   encryptedSessionKey |-> bufferToBase64(encryptedSessionKey),
   fileHash |-> fileHash,
   signature |-> bufferToBase64(signature),
   uploaderPublicKey |-> uploaderPublicKey,
   metadata |-> [originalFilename |-> originalFilename,
                 originalSize |-> originalSize,
                 mimeType |-> mimeType,
                 timestamp |-> IsoString(now)]]

createSecurePackageEmbedsPrivateKey(fileBuffer, originalFilename, mimeType, uploaderPrivateKey, uploaderPublicKey, recipientPublicKey, n, now) ==
  LET fileHash == hash(fileBuffer)
      signature == sign(fileHash, uploaderPrivateKey)
      sessionKey == generateSessionKey(n)
      encryptedFile == aesEncrypt(fileBuffer, sessionKey, RandomIv(n))
      encryptedSessionKey == encryptWithPublicKey(sessionKey, recipientPublicKey)
  IN IF signature.threw THEN signature
     ELSE IF encryptedFile.threw THEN encryptedFile
     ELSE IF encryptedSessionKey.threw THEN encryptedSessionKey
     ELSE Return(createZipPackage(
            PackageManifest(encryptedFile.value, encryptedSessionKey.value,
                            fileHash, signature.value, uploaderPrivateKey,
                            originalFilename, Size(fileBuffer), mimeType, now)))

\* n: the random draws of this call; now: the clock
createSecurePackage(fileBuffer, originalFilename, mimeType, uploaderPrivateKey, uploaderPublicKey, recipientPublicKey, n, now) ==
  LET fileHash == hash(fileBuffer)
      signature == sign(fileHash, uploaderPrivateKey)
      sessionKey == generateSessionKey(n)
      encryptedFile == aesEncrypt(fileBuffer, sessionKey, RandomIv(n))
      encryptedSessionKey == encryptWithPublicKey(sessionKey, recipientPublicKey)
  IN IF signature.threw THEN signature
     ELSE IF encryptedFile.threw THEN encryptedFile
     ELSE IF encryptedSessionKey.threw THEN encryptedSessionKey
     ELSE Return(createZipPackage(
            PackageManifest(encryptedFile.value, encryptedSessionKey.value,
                            fileHash, signature.value, uploaderPublicKey,
                            originalFilename, Size(fileBuffer), mimeType, now)))

(* ------------------------------------------------------------------ *)
(* transferFlowService: upload flow                                   *)
(* ------------------------------------------------------------------ *)
packageSecureDataKeepsDate(encryptedFile, encryptedSessionKey, fileHash, signature, uploaderPublicKey, filename, originalSize, mimeType, now) ==
  [version |-> Absent,
   encryptedFile |-> EncryptedFileToBase64(encryptedFile),
   encryptedSessionKey |-> bufferToBase64(encryptedSessionKey),
   fileHash |-> fileHash,
   signature |-> bufferToBase64(signature),
   uploaderPublicKey |-> uploaderPublicKey,
   metadata |-> [originalFilename |-> filename,
                 originalSize |-> originalSize,
                 mimeType |-> mimeType,
                 timestamp |-> [date |-> now]]]

packageSecureData(encryptedFile, encryptedSessionKey, fileHash, signature, uploaderPublicKey, filename, originalSize, mimeType, now) ==
  [version |-> Absent,
   encryptedFile |-> EncryptedFileToBase64(encryptedFile),
   encryptedSessionKey |-> bufferToBase64(encryptedSessionKey),
   fileHash |-> fileHash,
   signature |-> bufferToBase64(signature),
   uploaderPublicKey |-> uploaderPublicKey,
   metadata |-> [originalFilename |-> filename,
                 originalSize |-> originalSize,
                 mimeType |-> mimeType,
                 timestamp |-> IsoString(now)]]

executeUploadFlow(fileBuffer, filename, mimeType, uploaderPrivateKey, uploaderPublicKey, recipientPublicKey, n, now) ==
  LET sessionKey == generateSessionKey(n)
      encryptedFile == aesEncrypt(fileBuffer, sessionKey, RandomIv(n))
      fileHash == hash(fileBuffer)
      signature == sign(fileHash, uploaderPrivateKey)
      encryptedSessionKey == encryptWithPublicKey(sessionKey, recipientPublicKey)
  IN IF encryptedFile.threw THEN encryptedFile
     ELSE IF signature.threw THEN signature
     ELSE IF encryptedSessionKey.threw THEN encryptedSessionKey
     ELSE Return([encryptedFile |-> encryptedFile.value,
                  sessionKey |-> sessionKey,
                  encryptedSessionKey |-> encryptedSessionKey.value,
                  fileHash |-> fileHash,
                  signature |-> signature.value,
                  metadata |-> [originalFilename |-> filename,
                                originalSize |-> Size(fileBuffer),
                                mimeType |-> mimeType,
                                timestamp |-> [date |-> now]]])

(* ------------------------------------------------------------------ *)
(* Opening: transferFlowService.executeDownloadFlow and               *)
(* fileService.decryptSecureFile                                      *)
(* ------------------------------------------------------------------ *)
decryptSessionKey(encryptedSessionKey, recipientPrivateKey) ==
  decryptWithPrivateKey(encryptedSessionKey, recipientPrivateKey)

decryptFile(encryptedData, sessionKey) ==
  aesDecrypt(encryptedData.ciphertext, sessionKey, encryptedData.iv,
             encryptedData.authTag)

verifyFileIntegrity(fileBuffer, expectedHash) == hash(fileBuffer) = expectedHash

verifyFileSignatureNoCatch(signature, fileHash, uploaderPublicKey) ==
  cryptoVerify(HashBuffer(fileHash), uploaderPublicKey, signature)

verifyFileSignature(signature, fileHash, uploaderPublicKey) ==
  verify(signature, fileHash, uploaderPublicKey)

\* the three base64ToBuffer calls that make the EncryptedData of step 2
EncryptedDataOf(manifest) ==
  LET ciphertext == base64ToBuffer(manifest.encryptedFile.ciphertext)
      iv == base64ToBuffer(manifest.encryptedFile.iv)
      authTag == base64ToBuffer(manifest.encryptedFile.authTag)
  IN IF ciphertext.threw THEN ciphertext
     ELSE IF iv.threw THEN iv
     ELSE IF authTag.threw THEN authTag
     ELSE Return([ciphertext |-> ciphertext.value, iv |-> iv.value,
                  authTag |-> authTag.value])

\* what both flows return: fileBuffer and verified; executeDownloadFlow also
\* returns hashValid and signatureValid (verificationDetails) and metadata,
\* decryptSecureFile only logs them (hashMatch, signatureValid)
OpenResult(fileBuffer, hashValid, signatureValid, verified) ==
  [fileBuffer |-> fileBuffer, verified |-> verified,
   hashValid |-> hashValid, signatureValid |-> signatureValid]

executeDownloadFlowVerifiedIfEither(manifest, recipientPrivateKey) ==
  LET encryptedSessionKey == base64ToBuffer(manifest.encryptedSessionKey)
      sessionKey == decryptSessionKey(encryptedSessionKey.value, recipientPrivateKey)
      encryptedData == EncryptedDataOf(manifest)
      fileBuffer == decryptFile(encryptedData.value, sessionKey.value)
      hashValid == verifyFileIntegrity(fileBuffer.value, manifest.fileHash)
      signature == base64ToBuffer(manifest.signature)
      signatureValid == verifyFileSignature(signature.value, manifest.fileHash,
                                            manifest.uploaderPublicKey)
  IN IF encryptedSessionKey.threw THEN encryptedSessionKey
     ELSE IF sessionKey.threw THEN sessionKey
     ELSE IF encryptedData.threw THEN encryptedData
     ELSE IF fileBuffer.threw THEN fileBuffer
     ELSE IF signature.threw THEN signature
     ELSE IF signatureValid.threw THEN signatureValid
     ELSE Return(OpenResult(fileBuffer.value, hashValid, signatureValid.value,
                            hashValid \/ signatureValid.value))

executeDownloadFlow(manifest, recipientPrivateKey) ==
  LET encryptedSessionKey == base64ToBuffer(manifest.encryptedSessionKey)
      sessionKey == decryptSessionKey(encryptedSessionKey.value, recipientPrivateKey)
      encryptedData == EncryptedDataOf(manifest)
      fileBuffer == decryptFile(encryptedData.value, sessionKey.value)
      hashValid == verifyFileIntegrity(fileBuffer.value, manifest.fileHash)
      signature == base64ToBuffer(manifest.signature)
      signatureValid == verifyFileSignature(signature.value, manifest.fileHash,
                                            manifest.uploaderPublicKey)
  IN IF encryptedSessionKey.threw THEN encryptedSessionKey
     ELSE IF sessionKey.threw THEN sessionKey
     ELSE IF encryptedData.threw THEN encryptedData
     ELSE IF fileBuffer.threw THEN fileBuffer
     ELSE IF signature.threw THEN signature
     ELSE IF signatureValid.threw THEN signatureValid
     ELSE Return(OpenResult(fileBuffer.value, hashValid, signatureValid.value,
                            hashValid /\ signatureValid.value))

decryptSecureFile(manifest, recipientPrivateKey) ==
  LET encryptedSessionKey == base64ToBuffer(manifest.encryptedSessionKey)
      sessionKey == decryptWithPrivateKey(encryptedSessionKey.value,
                                          recipientPrivateKey)
      encryptedData == EncryptedDataOf(manifest)
      fileBuffer == aesDecrypt(encryptedData.value.ciphertext, sessionKey.value,
                               encryptedData.value.iv, encryptedData.value.authTag)
      hashMatch == hash(fileBuffer.value) = manifest.fileHash
      signature == base64ToBuffer(manifest.signature)
      signatureValid == verify(signature.value, manifest.fileHash,
                               manifest.uploaderPublicKey)
  IN IF encryptedSessionKey.threw THEN encryptedSessionKey
     ELSE IF sessionKey.threw THEN sessionKey
     ELSE IF encryptedData.threw THEN encryptedData
     ELSE IF fileBuffer.threw THEN fileBuffer
     ELSE IF signature.threw THEN signature
     ELSE IF signatureValid.threw THEN signatureValid
     ELSE Return(OpenResult(fileBuffer.value, hashMatch, signatureValid.value,
                            hashMatch /\ signatureValid.value))

\* one statement of a flow and whether it threw
Step(name, result) == [step |-> name, threw |-> result.threw]

executeDownloadFlowStepsNoAbort(manifest, recipientPrivateKey) ==
  LET encryptedSessionKey == base64ToBuffer(manifest.encryptedSessionKey)
      sessionKey == decryptSessionKey(encryptedSessionKey.value, recipientPrivateKey)
      encryptedData == EncryptedDataOf(manifest)
      fileBuffer == decryptFile(encryptedData.value, sessionKey.value)
      unwrapThrew == encryptedSessionKey.threw \/ sessionKey.threw
      decryptThrew == unwrapThrew \/ encryptedData.threw \/ fileBuffer.threw
  IN <<[step |-> "unwrap", threw |-> unwrapThrew],
       [step |-> "decrypt", threw |-> decryptThrew],
       [step |-> "hash", threw |-> decryptThrew],
       [step |-> "verify", threw |-> decryptThrew]>>

\* Paso 2.1 to 2.4 of executeDownloadFlow, as far as they run: a throw leaves
\* the function
executeDownloadFlowSteps(manifest, recipientPrivateKey) ==
  LET encryptedSessionKey == base64ToBuffer(manifest.encryptedSessionKey)
      sessionKey == decryptSessionKey(encryptedSessionKey.value, recipientPrivateKey)
      unwrap == IF encryptedSessionKey.threw THEN encryptedSessionKey ELSE sessionKey
      encryptedData == EncryptedDataOf(manifest)
      fileBuffer == decryptFile(encryptedData.value, sessionKey.value)
      decrypt == IF encryptedData.threw THEN encryptedData ELSE fileBuffer
      hashValid == verifyFileIntegrity(fileBuffer.value, manifest.fileHash)
      signature == base64ToBuffer(manifest.signature)
      signatureValid == verifyFileSignature(signature.value, manifest.fileHash,
                                            manifest.uploaderPublicKey)
      check == IF signature.threw THEN signature ELSE signatureValid
  IN IF unwrap.threw THEN <<Step("unwrap", unwrap)>>
     ELSE IF decrypt.threw THEN <<Step("unwrap", unwrap), Step("decrypt", decrypt)>>
     ELSE <<Step("unwrap", unwrap), Step("decrypt", decrypt),
            Step("hash", Return(hashValid)), Step("verify", check)>>

\* steps 1 to 4 of decryptSecureFile, as far as they run: the catch rethrows
decryptSecureFileSteps(manifest, recipientPrivateKey) ==
  LET encryptedSessionKey == base64ToBuffer(manifest.encryptedSessionKey)
      sessionKey == decryptWithPrivateKey(encryptedSessionKey.value,
                                          recipientPrivateKey)
      unwrap == IF encryptedSessionKey.threw THEN encryptedSessionKey ELSE sessionKey
      encryptedData == EncryptedDataOf(manifest)
      fileBuffer == aesDecrypt(encryptedData.value.ciphertext, sessionKey.value,
                               encryptedData.value.iv, encryptedData.value.authTag)
      decrypt == IF encryptedData.threw THEN encryptedData ELSE fileBuffer
      hashMatch == hash(fileBuffer.value) = manifest.fileHash
      signature == base64ToBuffer(manifest.signature)
      signatureValid == verify(signature.value, manifest.fileHash,
                               manifest.uploaderPublicKey)
      check == IF signature.threw THEN signature ELSE signatureValid
  IN IF unwrap.threw THEN <<Step("unwrap", unwrap)>>
     ELSE IF decrypt.threw THEN <<Step("unwrap", unwrap), Step("decrypt", decrypt)>>
     ELSE <<Step("unwrap", unwrap), Step("decrypt", decrypt),
            Step("hash", Return(hashMatch)), Step("verify", check)>>

(* ------------------------------------------------------------------ *)
(* The transfer: one envelope is built, travels, and is opened        *)
(* ------------------------------------------------------------------ *)
VARIABLES
  builds,    \* build operations so far; the next one draws randomness builds + 1
  pkg,       \* the last build: its inputs, what its entry point returned, its envelope
  wire,      \* the envelope as it reaches the receiver
  tampers,   \* fields altered in transit
  opened     \* the last open: the envelope and key it was given, and its outcome

transferVars == <<builds, pkg, wire, tampers, opened>>

NoPkg == [state |-> "none"]
NotOpened == [state |-> "none"]

Builders == {"createSecurePackage", "executeUploadFlow"}
Flows == {"executeDownloadFlow", "decryptSecureFile"}
OpenKeys == {PrivateKeyPem(k) : k \in KeyIds} \cup {MalformedPem}

\* the demo's file name and MIME type
DemoFilename == Str("doc.txt")
DemoMimeType == Str("text/plain")

\* the 64 zeros of the demo, and other hex text that is no digest of a file sent
ZeroHash == [digest |-> FileBuffer("zeros"), form |-> "lower"]

TamperKinds ==
  {"ciphertext.flip", "ciphertext.recode", "authTag.flip", "authTag.truncate",
   "authTag.cut3", "iv.flip", "encryptedSessionKey.flip", "fileHash.zeros",
   "fileHash.other", "fileHash.upper", "signature.flip", "signature.drop",
   "signature.forge", "uploaderPublicKey.other", "uploaderPublicKey.malformed"}

\* a base64 field with its bytes altered
AlterBytes(field, bytes) == [b64 |-> bytes, text |-> field.text]

ApplyTamper(kind, m) ==
  CASE kind = "ciphertext.flip" ->
         [m EXCEPT !.encryptedFile.ciphertext = AlterBytes(@, Flip(@.b64))]
    [] kind = "ciphertext.recode" ->
         [m EXCEPT !.encryptedFile.ciphertext.text = "loose"]
    [] kind = "authTag.flip" ->
         [m EXCEPT !.encryptedFile.authTag = AlterBytes(@, Flip(@.b64))]
    [] kind = "authTag.truncate" ->
         [m EXCEPT !.encryptedFile.authTag = AlterBytes(@, [@.b64 EXCEPT !.len = 4])]
    [] kind = "authTag.cut3" ->
         [m EXCEPT !.encryptedFile.authTag = AlterBytes(@, [@.b64 EXCEPT !.len = 3])]
    [] kind = "iv.flip" ->
         [m EXCEPT !.encryptedFile.iv = AlterBytes(@, Flip(@.b64))]
    [] kind = "encryptedSessionKey.flip" ->
         [m EXCEPT !.encryptedSessionKey = AlterBytes(@, Flip(@.b64))]
    [] kind = "fileHash.zeros" -> [m EXCEPT !.fileHash = ZeroHash]
    [] kind = "fileHash.other" ->
         [m EXCEPT !.fileHash =
            hash(CHOOSE p \in Plaintexts : hash(p) # [@ EXCEPT !.form = "lower"])]
    [] kind = "fileHash.upper" -> [m EXCEPT !.fileHash.form = "upper"]
    [] kind = "signature.flip" ->
         IF m.signature = Absent THEN m
         ELSE [m EXCEPT !.signature = AlterBytes(@, Flip(@.b64))]
    [] kind = "signature.drop" -> [m EXCEPT !.signature = Absent]
    [] kind = "signature.forge" ->
         [m EXCEPT !.signature =
            bufferToBase64(sign(m.fileHash, PrivateKeyPem("E")).value)]
    [] kind = "uploaderPublicKey.other" ->
         [m EXCEPT !.uploaderPublicKey = PublicKeyPem("E")]
    [] kind = "uploaderPublicKey.malformed" ->
         [m EXCEPT !.uploaderPublicKey = MalformedPem]
    [] kind = "metadata.drop" -> [m EXCEPT !.metadata = Absent]
    [] kind = "uploaderPublicKey.escaped" ->
         [m EXCEPT !.uploaderPublicKey = EscapedPem(@)]

TransferInit ==
  /\ builds = 0
  /\ pkg = NoPkg
  /\ wire = Nothing
  /\ tampers = 0
  /\ opened = NotOpened

\* a sender with key pair s builds for the holder of key pair r
BuildWith(builder, fileBuffer, s, r) ==
  LET n == builds + 1
      returned ==
        IF builder = "createSecurePackage"
        THEN createSecurePackage(fileBuffer, DemoFilename, DemoMimeType,
                                 PrivateKeyPem(s), PublicKeyPem(s), PublicKeyPem(r),
                                 n, n)
        ELSE executeUploadFlow(fileBuffer, DemoFilename, DemoMimeType,
                               PrivateKeyPem(s), PublicKeyPem(s), PublicKeyPem(r),
                               n, n)
      manifest ==
        IF builder = "createSecurePackage"
        THEN parseManifest(returned.value.manifestJson)
        ELSE packageSecureData(returned.value.encryptedFile,
                               returned.value.encryptedSessionKey,
                               returned.value.fileHash, returned.value.signature,
                               PublicKeyPem(s), DemoFilename, Size(fileBuffer),
                               DemoMimeType, n)
  IN /\ builds < MaxBuilds
     /\ ~returned.threw
     /\ builds' = n
     /\ pkg' = [state |-> "built", builder |-> builder, plaintext |-> fileBuffer,
                sender |-> s, recipient |-> r, n |-> n,
                returned |-> returned.value, manifest |-> manifest]
     /\ wire' = parseManifest(serializeManifest(manifest))
     /\ tampers' = 0
     /\ opened' = NotOpened

Build ==
  \E builder \in Builders, fileBuffer \in Plaintexts, s \in KeyIds, r \in KeyIds :
    BuildWith(builder, fileBuffer, s, r)

\* somebody on the way alters one field of the envelope
Tamper ==
  \E kind \in TamperKinds :
    /\ pkg.state = "built"
    /\ opened = NotOpened
    /\ tampers < MaxTampers
    /\ ApplyTamper(kind, wire) # wire
    /\ wire' = ApplyTamper(kind, wire)
    /\ tampers' = tampers + 1
    /\ UNCHANGED <<builds, pkg, opened>>

OpenWith(flow, key) ==
  /\ pkg.state = "built"
  /\ opened' = [state |-> "opened", flow |-> flow, key |-> key, manifest |-> wire,
                result |-> IF flow = "executeDownloadFlow"
                           THEN executeDownloadFlow(wire, key)
                           ELSE decryptSecureFile(wire, key),
                steps |-> IF flow = "executeDownloadFlow"
                          THEN executeDownloadFlowSteps(wire, key)
                          ELSE decryptSecureFileSteps(wire, key)]
  /\ UNCHANGED <<builds, pkg, wire, tampers>>

Open == \E flow \in Flows, key \in OpenKeys : OpenWith(flow, key)

(* ------------------------------------------------------------------ *)
(* The file controller, in the four revisions the repository holds    *)
(* ------------------------------------------------------------------ *)
VARIABLES
  deployed,    \* the revision of the file controller that serves requests
  now,         \* the clock, in days
  packagesDB,  \* packageId -> FilePackage
  metadataDB,  \* packageId -> PackageMetadata
  storage,     \* path -> stored bytes (local disk or the Supabase bucket)
  filesTable,  \* packageId -> the row of the Supabase table files
  response     \* the last response sent, with the handler that sent it

systemVars == <<deployed, now, packagesDB, metadataDB, storage, filesTable, response>>

\* fileController.ts holds the disk and the first Supabase revision (no
\* cryptography yet), part_004 the first encrypting revision, and
\* authController.ts the revision the routes import
PlainRevisions == {"fileController.disk", "fileController.supabase"}
SecureRevisions == {"part_004", "authController"}
Revisions == PlainRevisions \cup SecureRevisions

PackageIds == {"pkg1", "pkg2"}
\* a request body without packageId (!packageId)
NoPackageId == ""
\* SERVER_PRIVATE_KEY / SERVER_PUBLIC_KEY of the environment
SERVER_KEY == "A"
\* 7 * 24 * 60 * 60 * 1000 ms
EXPIRY_DAYS == 7
\* the clock moves in steps of TickDays up to MaxClock
TickDays == 4
MaxClock == 8
\* downloads counted per package in one behaviour
MaxDownloads == 2

\* text with no -----BEGIN / -----END in it
NotPem == [pem |-> "TEXT", id |-> "none"]
HasPemMarkers(p) == p.pem \in {"PUBLIC KEY", "PRIVATE KEY", "MALFORMED", "ESCAPED"}

NoResponse == [handler |-> "none"]
\* opened: what the handler got from decryptSecureFile (Nothing: never called)
Respond(handler, status, headers, body, openedBy) ==
  [handler |-> handler, status |-> status, headers |-> headers, body |-> body,
   opened |-> openedBy]
NoHeaders == [none |-> TRUE]
ErrorBody(message) == [error |-> message]

calculateKeyFingerprint(publicKey) == [first16 |-> hash(publicKey)]

SystemInit ==
  /\ deployed \in Revisions
  /\ now = 0
  /\ packagesDB = <<>>
  /\ metadataDB = <<>>
  /\ storage = <<>>
  /\ filesTable = <<>>
  /\ response = NoResponse

Tick ==
  /\ now + TickDays <= MaxClock
  /\ now' = now + TickDays
  /\ UNCHANGED <<deployed, packagesDB, metadataDB, storage, filesTable, response>>

FilePackageOfWithPrivateKey(packageId, file, stored, path, fileHash, uploaderId, uploaderPublicKey, fingerprint) ==
  [packageId |-> packageId, filename |-> DemoFilename, originalSize |-> Size(file),
   encryptedSize |-> stored, mimeType |-> DemoMimeType, uploadedAt |-> now,
   expiresAt |-> now + EXPIRY_DAYS, encryptedPath |-> path, fileHash |-> fileHash,
   signature |-> Str(""), uploaderId |-> uploaderId,
   uploaderPublicKey |-> PrivateKeyPem(uploaderPublicKey.id),
   publicKeyFingerprint |-> fingerprint]

\* step 5 of uploadFile
FilePackageOf(packageId, file, stored, path, fileHash, uploaderId, uploaderPublicKey, fingerprint) ==
  [packageId |-> packageId, filename |-> DemoFilename, originalSize |-> Size(file),
   encryptedSize |-> stored, mimeType |-> DemoMimeType, uploadedAt |-> now,
   expiresAt |-> now + EXPIRY_DAYS, encryptedPath |-> path, fileHash |-> fileHash,
   signature |-> Str(""), uploaderId |-> uploaderId,
   uploaderPublicKey |-> uploaderPublicKey, publicKeyFingerprint |-> fingerprint]

MetadataOf(filePackage) ==
  [packageId |-> filePackage.packageId, filename |-> filePackage.filename,
   originalSize |-> filePackage.originalSize,
   encryptedSize |-> filePackage.encryptedSize, mimeType |-> filePackage.mimeType,
   uploadedAt |-> filePackage.uploadedAt, expiresAt |-> filePackage.expiresAt,
   status |-> "active", uploaderId |-> filePackage.uploaderId,
   uploaderPublicKey |-> filePackage.uploaderPublicKey,
   uploaderPublicKeyFingerprint |-> filePackage.publicKeyFingerprint,
   fileHash |-> filePackage.fileHash, signature |-> filePackage.signature,
   downloadCount |-> 0]

\* uploadFile of the encrypting revisions; file = Absent: no file in the
\* request; recipientPublicKey = Absent: none in the body; storageUp: whether
\* the bucket takes the upload
uploadFileSecureRegistersFirst(packageId, file, recipientPublicKey, userId, storageUp, insertOk) ==
  /\ deployed \in SecureRevisions
  /\ packageId \notin DOMAIN packagesDB
  /\ file # Absent
  /\ ~storageUp
  /\ packagesDB' = packagesDB @@ (packageId :> [packageId |-> packageId])
  /\ response' = Respond("uploadFile", 500, NoHeaders,
                         ErrorBody("Error al procesar el archivo"), Nothing)
  /\ UNCHANGED <<deployed, now, metadataDB, storage, filesTable>>

\* the row uploadFile inserts into the table files
FilesRow(filePackage) ==
  [package_id |-> filePackage.packageId,
   uploader_id |-> filePackage.uploaderId,
   original_filename |-> filePackage.filename,
   original_size |-> filePackage.originalSize,
   mime_type |-> filePackage.mimeType,
   file_hash |-> filePackage.fileHash,
   encrypted_size |-> filePackage.encryptedSize,
   encrypted_path |-> filePackage.encryptedPath,
   master_encrypted_session_key |-> Str("dummy_key"),
   signature |-> filePackage.publicKeyFingerprint,
   max_downloads |-> Absent,
   expires_at |-> IsoString(filePackage.expiresAt),
   allow_reshare |-> FALSE,
   require_auth |-> TRUE,
   status |-> "active"]

\* insertOk: whether the insert into the table files goes through (an
\* error is logged and the upload is answered all the same)
uploadFileSecure(packageId, file, recipientPublicKey, userId, storageUp, insertOk) ==
  LET uploaderId == IF userId = Absent THEN "anonymous" ELSE userId.str
      zip == createSecurePackage(file, DemoFilename, DemoMimeType,
                                 PrivateKeyPem(SERVER_KEY), PublicKeyPem(SERVER_KEY),
                                 recipientPublicKey, packageId, now)
      path == [zipOf |-> packageId, at |-> now]
      filePackage == FilePackageOf(packageId, file, [sizeOfZip |-> packageId], path,
                                   hash(file), uploaderId, PublicKeyPem(SERVER_KEY),
                                   calculateKeyFingerprint(PublicKeyPem(SERVER_KEY)))
  IN /\ deployed \in SecureRevisions
     /\ packageId \notin DOMAIN packagesDB
     /\ IF file = Absent
        THEN /\ response' = Respond("uploadFile", 400, NoHeaders,
                                    ErrorBody("No se proporciono ningun archivo"), Nothing)
             /\ UNCHANGED <<packagesDB, metadataDB, storage, filesTable>>
        ELSE IF recipientPublicKey = Absent
        THEN /\ response' = Respond("uploadFile", 400, NoHeaders,
                                    ErrorBody("Se requiere recipientPublicKey"), Nothing)
             /\ UNCHANGED <<packagesDB, metadataDB, storage, filesTable>>
        ELSE IF ~HasPemMarkers(recipientPublicKey)
        THEN /\ response' = Respond("uploadFile", 400, NoHeaders,
                                    ErrorBody("Formato de clave publica invalido"), Nothing)
             /\ UNCHANGED <<packagesDB, metadataDB, storage, filesTable>>
        ELSE IF zip.threw \/ ~storageUp
        THEN /\ response' = Respond("uploadFile", 500, NoHeaders,
                                    ErrorBody("Error al procesar el archivo"), Nothing)
             /\ UNCHANGED <<packagesDB, metadataDB, storage, filesTable>>
        ELSE /\ storage' = storage @@ (path :> zip.value)
             /\ packagesDB' = packagesDB @@ (packageId :> filePackage)
             /\ metadataDB' = metadataDB @@ (packageId :> MetadataOf(filePackage))
             /\ filesTable' =
                  IF /\ deployed = "authController"
                     /\ uploaderId # "anonymous"
                     /\ insertOk
                  THEN filesTable @@ (packageId :> FilesRow(filePackage))
                  ELSE filesTable
             /\ response' = Respond("uploadFile", 201, NoHeaders,
                                    [packageId |-> packageId,
                                     expiresAt |-> filePackage.expiresAt,
                                     fileHash |-> filePackage.fileHash], Nothing)
     /\ UNCHANGED <<deployed, now>>

\* uploadFile of the revisions before encryption: the file is stored as sent
uploadFilePlain(packageId, file, userId, fingerprint, storageUp) ==
  LET uploaderId == IF userId = Absent THEN "anonymous" ELSE userId.str
      path == [fileOf |-> packageId, at |-> now]
      filePackage ==
        [packageId |-> packageId, filename |-> DemoFilename,
         originalSize |-> Size(file), encryptedSize |-> Size(file),
         mimeType |-> DemoMimeType, uploadedAt |-> now,
         expiresAt |-> now + EXPIRY_DAYS, encryptedPath |-> path,
         uploaderId |-> uploaderId, publicKeyFingerprint |-> fingerprint]
      metadata ==
        [packageId |-> packageId, filename |-> DemoFilename,
         originalSize |-> Size(file), encryptedSize |-> Size(file),
         mimeType |-> DemoMimeType, uploadedAt |-> now,
         expiresAt |-> now + EXPIRY_DAYS, status |-> "active",
         uploaderId |-> uploaderId, uploaderPublicKeyFingerprint |-> fingerprint,
         downloadCount |-> 0]
  IN /\ deployed \in PlainRevisions
     /\ packageId \notin DOMAIN packagesDB
     /\ IF file = Absent
        THEN /\ response' = Respond("uploadFile", 400, NoHeaders,
                                    ErrorBody("No se proporciono ningun archivo"), Nothing)
             /\ UNCHANGED <<packagesDB, metadataDB, storage>>
        ELSE IF deployed = "fileController.supabase" /\ ~storageUp
        THEN /\ response' = Respond("uploadFile", 500, NoHeaders,
                                    ErrorBody("Error al procesar el archivo"), Nothing)
             /\ UNCHANGED <<packagesDB, metadataDB, storage>>
        ELSE /\ storage' = storage @@ (path :> file)
             /\ packagesDB' = packagesDB @@ (packageId :> filePackage)
             /\ metadataDB' = metadataDB @@ (packageId :> metadata)
             /\ response' = Respond("uploadFile", 201, NoHeaders,
                                    [packageId |-> packageId,
                                     expiresAt |-> filePackage.expiresAt], Nothing)
     /\ UNCHANGED <<deployed, now, filesTable>>

Expired(filePackage) == now > filePackage.expiresAt

\* the manifest.json entry of a stored ZIP (AdmZip getEntry): none if the
\* stored bytes hold no such entry
ManifestEntry(zip) ==
  IF "manifestJson" \in DOMAIN zip THEN Return(zip.manifestJson)
  ELSE Throw("ManifestNotFound")

\* "Normalizar la clave publica del uploader en el manifest": the handler
\* assigns to the field of the manifest object it holds
NormalizedManifest(manifest) ==
  IF Falsy(manifest.uploaderPublicKey) THEN manifest
  ELSE [manifest EXCEPT !.uploaderPublicKey = normalizePem(@)]

\* decryptPackage of the encrypting revisions: the client sends the manifest
decryptPackageSecure(packageId, privateKey, manifest) ==
  LET decrypted == decryptSecureFile(NormalizedManifest(manifest),
                                     normalizePem(privateKey))
  IN /\ deployed \in SecureRevisions
     /\ response' =
          IF packageId = NoPackageId \/ privateKey = Absent \/ manifest = Absent
          THEN Respond("decryptPackage", 400, NoHeaders,
                       ErrorBody("Se requiere packageId, privateKey y manifest"), Nothing)
          ELSE IF ~HasPemMarkers(privateKey)
          THEN Respond("decryptPackage", 400, NoHeaders,
                       ErrorBody("Formato de clave privada invalido"), Nothing)
          ELSE IF packageId \notin DOMAIN packagesDB
          THEN Respond("decryptPackage", 404, NoHeaders,
                       ErrorBody("Paquete no encontrado"), Nothing)
          ELSE IF Expired(packagesDB[packageId])
          THEN Respond("decryptPackage", 410, NoHeaders,
                       ErrorBody("El paquete ha expirado"), Nothing)
          ELSE IF decrypted.threw
          THEN Respond("decryptPackage", 500, NoHeaders,
                       [error |-> "Error al descifrar el paquete",
                        details |-> decrypted.error], decrypted)
          ELSE Respond("decryptPackage", 200, NoHeaders,
                       [filename |-> packagesDB[packageId].filename,
                        mimeType |-> packagesDB[packageId].mimeType,
                        data |-> bufferToBase64(decrypted.value.fileBuffer),
                        verified |-> decrypted.value.verified], decrypted)
     /\ UNCHANGED <<deployed, now, packagesDB, metadataDB, storage, filesTable>>

\* decryptPackage of the revisions before encryption: "En produccion, aqui
\* se descifraria el archivo"; the stored file is sent back as it is
decryptPackagePlain(packageId, privateKey, storageUp) ==
  /\ deployed \in PlainRevisions
  /\ response' =
       IF packageId = NoPackageId \/ privateKey = Absent
       THEN Respond("decryptPackage", 400, NoHeaders,
                    ErrorBody("Se requiere packageId y privateKey"), Nothing)
       ELSE IF packageId \notin DOMAIN packagesDB
       THEN Respond("decryptPackage", 404, NoHeaders,
                    ErrorBody("Paquete no encontrado"), Nothing)
       ELSE IF Expired(packagesDB[packageId])
       THEN Respond("decryptPackage", 410, NoHeaders,
                    ErrorBody("El paquete ha expirado"), Nothing)
       ELSE IF /\ deployed = "fileController.disk"
               /\ packagesDB[packageId].encryptedPath \notin DOMAIN storage
       THEN Respond("decryptPackage", 404, NoHeaders,
                    ErrorBody("Archivo no encontrado en el servidor"), Nothing)
       ELSE IF deployed = "fileController.supabase" /\ ~storageUp
       THEN Respond("decryptPackage", 500, NoHeaders,
                    ErrorBody("Error al descifrar el paquete"), Nothing)
       ELSE Respond("decryptPackage", 200, NoHeaders,
                    [filename |-> packagesDB[packageId].filename,
                     mimeType |-> packagesDB[packageId].mimeType,
                     data |-> bufferToBase64(
                                storage[packagesDB[packageId].encryptedPath])],
                    Nothing)
  /\ UNCHANGED <<deployed, now, packagesDB, metadataDB, storage, filesTable>>

CountDownload(metadata) ==
  [metadata EXCEPT !.downloadCount = @ + 1,
                   !.status = IF metadata.downloadCount + 1 = 1
                              THEN "downloaded" ELSE @]

\* downloadDecryptedFile: the server fetches the ZIP, opens it with the key
\* the receiver sends, and answers with the file
downloadDecryptedFile(packageId, privateKey, storageUp) ==
  LET filePackage == packagesDB[packageId]
      entry == ManifestEntry(storage[filePackage.encryptedPath])
      manifest == NormalizedManifest(parseManifest(entry.value))
      decrypted == decryptSecureFile(manifest, normalizePem(privateKey))
      delivered == /\ privateKey # Absent
                   /\ HasPemMarkers(privateKey)
                   /\ packageId \in DOMAIN packagesDB
                   /\ ~Expired(filePackage)
                   /\ storageUp
                   /\ ~entry.threw
                   /\ ~decrypted.threw
  IN /\ deployed = "authController"
     /\ packageId \in DOMAIN metadataDB => metadataDB[packageId].downloadCount < MaxDownloads
     /\ response' =
          IF privateKey = Absent
          THEN Respond("downloadDecryptedFile", 400, NoHeaders,
                       ErrorBody("Se requiere privateKey"), Nothing)
          ELSE IF ~HasPemMarkers(privateKey)
          THEN Respond("downloadDecryptedFile", 400, NoHeaders,
                       ErrorBody("Formato de clave privada invalido"), Nothing)
          ELSE IF packageId \notin DOMAIN packagesDB
          THEN Respond("downloadDecryptedFile", 404, NoHeaders,
                       ErrorBody("Paquete no encontrado"), Nothing)
          ELSE IF Expired(filePackage)
          THEN Respond("downloadDecryptedFile", 410, NoHeaders,
                       ErrorBody("El paquete ha expirado"), Nothing)
          ELSE IF ~storageUp
          THEN Respond("downloadDecryptedFile", 500, NoHeaders,
                       [error |-> "Error al descifrar y descargar el archivo",
                        details |-> "storage"], Nothing)
          ELSE IF entry.threw
          THEN Respond("downloadDecryptedFile", 500, NoHeaders,
                       ErrorBody("Manifest no encontrado en el paquete"), Nothing)
          ELSE IF decrypted.threw
          THEN Respond("downloadDecryptedFile", 500, NoHeaders,
                       [error |-> "Error al descifrar y descargar el archivo",
                        details |-> decrypted.error], decrypted)
          ELSE Respond("downloadDecryptedFile", 200,
                       [ContentType |-> filePackage.mimeType,
                        XFileVerified |-> decrypted.value.verified],
                       decrypted.value.fileBuffer, decrypted)
     /\ metadataDB' =
          IF delivered /\ packageId \in DOMAIN metadataDB
          THEN [metadataDB EXCEPT ![packageId] = CountDownload(@)]
          ELSE metadataDB
     /\ UNCHANGED <<deployed, now, packagesDB, storage, filesTable>>

\* downloadPackage: the stored bytes are sent as they are. In the disk
\* revision the file is looked up (existsSync) and sent by res.download; in
\* the others it is fetched from the bucket (storageUp) and turned into a
\* Buffer (blobOk) after the download was counted
downloadPackage(packageId, storageUp, blobOk) ==
  LET filePackage == packagesDB[packageId]
      found == packageId \in DOMAIN packagesDB
      onDisk == deployed = "fileController.disk"
      fetched == /\ found
                 /\ ~Expired(filePackage)
                 /\ IF onDisk THEN filePackage.encryptedPath \in DOMAIN storage
                    ELSE storageUp
  IN /\ packageId \in DOMAIN metadataDB => metadataDB[packageId].downloadCount < MaxDownloads
     /\ response' =
          IF ~found
          THEN Respond("downloadPackage", 404, NoHeaders,
                       ErrorBody("Paquete no encontrado"), Nothing)
          ELSE IF Expired(filePackage)
          THEN Respond("downloadPackage", 410, NoHeaders,
                       ErrorBody("El paquete ha expirado"), Nothing)
          ELSE IF onDisk /\ ~fetched
          THEN Respond("downloadPackage", 404, NoHeaders,
                       ErrorBody("Archivo no encontrado en el servidor"), Nothing)
          ELSE IF ~onDisk /\ (~storageUp \/ ~blobOk)
          THEN Respond("downloadPackage", 500, NoHeaders,
                       ErrorBody("Error al descargar el paquete"), Nothing)
          ELSE Respond("downloadPackage", 200,
                       [ContentType |-> IF deployed \in SecureRevisions
                                        THEN Str("application/zip")
                                        ELSE filePackage.mimeType],
                       storage[filePackage.encryptedPath], Nothing)
     /\ metadataDB' =
          IF fetched /\ packageId \in DOMAIN metadataDB
          THEN [metadataDB EXCEPT ![packageId] = CountDownload(@)]
          ELSE metadataDB
     /\ UNCHANGED <<deployed, now, packagesDB, storage, filesTable>>

\* getPackageManifest: the manifest.json of the stored ZIP
getPackageManifest(packageId, storageUp) ==
  LET filePackage == packagesDB[packageId]
      entry == ManifestEntry(storage[filePackage.encryptedPath])
  IN /\ deployed \in SecureRevisions
     /\ response' =
          IF packageId \notin DOMAIN packagesDB
          THEN Respond("getPackageManifest", 404, NoHeaders,
                       ErrorBody("Paquete no encontrado"), Nothing)
          ELSE IF Expired(filePackage)
          THEN Respond("getPackageManifest", 410, NoHeaders,
                       ErrorBody("El paquete ha expirado"), Nothing)
          ELSE IF ~storageUp
          THEN Respond("getPackageManifest", 500, NoHeaders,
                       ErrorBody("Error al extraer manifest del paquete"), Nothing)
          ELSE IF entry.threw
          THEN Respond("getPackageManifest", 500, NoHeaders,
                       ErrorBody("Manifest no encontrado en el paquete"), Nothing)
          ELSE Respond("getPackageManifest", 200, NoHeaders,
                       [packageId |-> packageId,
                        manifest |-> parseManifest(entry.value)], Nothing)
     /\ UNCHANGED <<deployed, now, packagesDB, metadataDB, storage, filesTable>>

(* ------------------------------------------------------------------ *)
(* Calls in progress: createSecurePackage and decryptSecureFile run   *)
(* by several callers at once, each with its own locals               *)
(* ------------------------------------------------------------------ *)
VARIABLES tasks

\* the download requests in progress with their bookkeeping, and the rows
\* of file_permissions and user_profiles and the count of download_logs
VARIABLES downloads, filePermissions, userStats, downloadLogs

downloadVars == <<downloads, filePermissions, userStats, downloadLogs>>
concurrentVars == <<tasks, downloadVars>>

\* how many calls run at once
MaxTasks == 3
TaskIds == 1..MaxTasks

\* the locals of one call
IdleTask ==
  [op |-> "none", pc |-> "idle", input |-> Nothing, fileHash |-> Nothing,
   signature |-> Nothing, sessionKey |-> Nothing, encryptedFile |-> Nothing,
   encryptedSessionKey |-> Nothing, manifest |-> Nothing, result |-> Nothing]

TasksIdle == tasks = [t \in TaskIds |-> IdleTask]

\* how many download requests are followed
MaxAuditedDownloads == 2
DownloadIds == 1..MaxAuditedDownloads

\* a promise of the bookkeeping: not started, waiting for the select,
\* holding the row it read, or settled
NotStarted == [at |-> "none"]
Reading == [at |-> "reading"]
Writing(count) == [at |-> "writing", read |-> count]
Pending == [at |-> "pending"]
Settled == [at |-> "settled"]

IdleDownload ==
  [pc |-> "idle", userId |-> "", response |-> Nothing, logDownload |-> NotStarted,
   updateUserStats |-> NotStarted, updateDownloadCount |-> NotStarted,
   notifyFileDownloaded |-> NotStarted]

DownloadsIdle ==
  /\ downloads = [d \in DownloadIds |-> IdleDownload]
  /\ filePermissions = [downloads_count |-> 0]
  /\ userStats = [total_downloads |-> 0]
  /\ downloadLogs = 0

ConcurrentIdle == TasksIdle /\ DownloadsIdle

(* ------------------------------------------------------------------ *)
(* userService: the user_profiles table and the requests in progress  *)
(* ------------------------------------------------------------------ *)
VARIABLES userProfiles, requests, aesCalls

keyVars == <<userProfiles, requests, aesCalls>>

\* how many /auth/initialize and /auth/setup-keys requests are followed
MaxRequests == 2
RequestIds == 1..MaxRequests

TheUser == "u1"
IdleRequest ==
  [endpoint |-> "none", pc |-> "idle", encryptPrivateKey |-> FALSE, password |-> Absent,
   keyPair |-> Nothing, encryptedPrivateKey |-> Nothing, existingProfile |-> FALSE,
   status |-> 0, body |-> Nothing]

\* a row of user_profiles that holds no key yet (public_key null)
ProfileWithoutKeys == [public_key |-> Nothing, encrypted_private_key |-> Nothing]

KeysIdle ==
  /\ userProfiles = <<>>
  /\ requests = [r \in RequestIds |-> IdleRequest]
  /\ aesCalls = {}

(* ------------------------------------------------------------------ *)
(* sign and verify called on their own                                *)
(* ------------------------------------------------------------------ *)
VARIABLES
  signCall,    \* the last call of sign: its arguments and its outcome
  verifyCall,  \* the last call of verify: its arguments and its outcome
  call         \* the last call of another function: its arguments and its outcome

primitiveVars == <<signCall, verifyCall, call>>

NoCall == [state |-> "none"]

Upper(h) == [h EXCEPT !.form = "upper"]
HashInputs ==
  {hash(p) : p \in Plaintexts} \cup {Upper(hash(p)) : p \in Plaintexts}
    \cup {ZeroHash, Absent}
SignKeys == {PrivateKeyPem(k) : k \in KeyIds} \cup {PublicKeyPem("A"), MalformedPem}
VerifyKeys ==
  {PublicKeyPem(k) : k \in KeyIds} \cup {PrivateKeyPem(k) : k \in KeyIds}
    \cup {MalformedPem, NotPem, Absent}

\* what can be handed to verify as a signature after a call of sign: its
\* bytes, its bytes altered, or nothing
SignatureInputs ==
  IF signCall.result.threw THEN {Absent}
  ELSE {signCall.result.value, Flip(signCall.result.value), Absent}

PrimitivesInit ==
  /\ signCall = NoCall
  /\ verifyCall = NoCall
  /\ call = NoCall

SignCall ==
  \E hashToSign \in HashInputs, privateKeyPem \in SignKeys :
    /\ signCall' = [state |-> "called", hashToSign |-> hashToSign,
                    privateKeyPem |-> privateKeyPem,
                    result |-> sign(hashToSign, privateKeyPem)]
    /\ verifyCall' = NoCall
    /\ UNCHANGED <<call, keyVars, concurrentVars>>

VerifyCall ==
  /\ signCall # NoCall
  /\ \E signature \in SignatureInputs, hashToVerify \in HashInputs,
        publicKeyPem \in VerifyKeys :
       verifyCall' = [state |-> "called", signature |-> signature,
                      hashToVerify |-> hashToVerify, publicKeyPem |-> publicKeyPem,
                      result |-> verify(signature, hashToVerify, publicKeyPem)]
  /\ UNCHANGED <<signCall, call, keyVars, concurrentVars>>

(* ------------------------------------------------------------------ *)
(* Requests                                                           *)
(* ------------------------------------------------------------------ *)
\* the file of an upload request, or none: the two uploads send different files
UploadFiles(packageId) ==
  {FileBuffer(IF packageId = "pkg1" THEN "p1" ELSE "p2"), Absent}
UploadRecipients == {PublicKeyPem("B"), MalformedPem, NotPem, Absent}
UserIds == {Absent, Str("u1")}
RequestKeys == OpenKeys \cup {NotPem, Absent}
\* the keys sent with a manifest: the recipient's, another, no PEM, none
DecryptRequestKeys == {PrivateKeyPem("B"), PrivateKeyPem("E"), NotPem, Absent}
RequestPackageIds == PackageIds \cup {NoPackageId}
ClientTampers == {"fileHash.zeros", "authTag.flip", "signature.flip",
                  "encryptedSessionKey.flip", "metadata.drop",
                  "uploaderPublicKey.escaped"}

\* uuidv4: an id no package has; pkg1 is handed out before pkg2
FreshPackageId(packageId) ==
  /\ packageId \notin DOMAIN packagesDB
  /\ packageId = "pkg2" => "pkg1" \in DOMAIN packagesDB

StoredManifest(packageId) ==
  parseManifest(storage[packagesDB[packageId].encryptedPath].manifestJson)

\* the manifests a client can send: one it got from the server, as it is or
\* with a field altered, or none
ClientManifests ==
  {StoredManifest(p) : p \in DOMAIN packagesDB}
    \cup {ApplyTamper(kind, StoredManifest(p)) :
            kind \in ClientTampers, p \in DOMAIN packagesDB}

UploadSecure ==
  \E packageId \in PackageIds :
  \E file \in UploadFiles(packageId),
     recipientPublicKey \in UploadRecipients, userId \in UserIds,
     storageUp \in BOOLEAN, insertOk \in BOOLEAN :
    /\ FreshPackageId(packageId)
    /\ uploadFileSecure(packageId, file, recipientPublicKey, userId, storageUp,
                        insertOk)
    /\ UNCHANGED <<transferVars, primitiveVars, keyVars, concurrentVars>>

UploadPlain ==
  \E packageId \in PackageIds :
  \E file \in UploadFiles(packageId), userId \in UserIds, storageUp \in BOOLEAN :
    /\ FreshPackageId(packageId)
    /\ uploadFilePlain(packageId, file, userId, Str(""), storageUp)
    /\ UNCHANGED <<transferVars, primitiveVars, keyVars, concurrentVars>>

DecryptSecure ==
  /\ deployed \in SecureRevisions
  /\ \/ \E packageId \in RequestPackageIds, privateKey \in DecryptRequestKeys,
           manifest \in ClientManifests :
          decryptPackageSecure(packageId, privateKey, manifest)
     \/ \E packageId \in RequestPackageIds, privateKey \in DecryptRequestKeys :
          decryptPackageSecure(packageId, privateKey, Absent)
  /\ UNCHANGED <<transferVars, primitiveVars, keyVars, concurrentVars>>

DecryptPlain ==
  \E packageId \in RequestPackageIds, privateKey \in RequestKeys,
     storageUp \in BOOLEAN :
    /\ decryptPackagePlain(packageId, privateKey, storageUp)
    /\ UNCHANGED <<transferVars, primitiveVars, keyVars, concurrentVars>>

DownloadDecrypted ==
  \E packageId \in PackageIds, privateKey \in RequestKeys, storageUp \in BOOLEAN :
    /\ downloadDecryptedFile(packageId, privateKey, storageUp)
    /\ UNCHANGED <<transferVars, primitiveVars, keyVars, concurrentVars>>

DownloadPackage ==
  \E packageId \in PackageIds, storageUp \in BOOLEAN, blobOk \in BOOLEAN :
    /\ downloadPackage(packageId, storageUp, blobOk)
    /\ UNCHANGED <<transferVars, primitiveVars, keyVars, concurrentVars>>

GetPackageManifest ==
  \E packageId \in PackageIds, storageUp \in BOOLEAN :
    /\ getPackageManifest(packageId, storageUp)
    /\ UNCHANGED <<transferVars, primitiveVars, keyVars, concurrentVars>>

Clock == Tick /\ UNCHANGED <<transferVars, primitiveVars, keyVars, concurrentVars>>

(* ------------------------------------------------------------------ *)
(* Specifications                                                     *)
(* ------------------------------------------------------------------ *)
vars == <<builds, pkg, wire, tampers, opened,
          deployed, now, packagesDB, metadataDB, storage, filesTable, response,
          signCall, verifyCall, call,
          userProfiles, requests, aesCalls, tasks,
          downloads, filePermissions, userStats, downloadLogs>>

\* the protocol alone: no controller serves
SystemIdle ==
  /\ deployed = "authController"
  /\ now = 0
  /\ packagesDB = <<>>
  /\ metadataDB = <<>>
  /\ storage = <<>>
  /\ filesTable = <<>>
  /\ response = NoResponse

Init == TransferInit /\ SystemIdle /\ PrimitivesInit /\ KeysIdle /\ ConcurrentIdle

Next ==
  \/ Build /\ UNCHANGED <<systemVars, primitiveVars, keyVars, concurrentVars>>
  \/ Tamper /\ UNCHANGED <<systemVars, primitiveVars, keyVars, concurrentVars>>
  \/ Open /\ UNCHANGED <<systemVars, primitiveVars, keyVars, concurrentVars>>

Spec == Init /\ [][Next]_vars

\* the controllers
InitSystem == TransferInit /\ SystemInit /\ PrimitivesInit /\ KeysIdle /\ ConcurrentIdle

NextSystem ==
  \/ UploadSecure
  \/ UploadPlain
  \/ DecryptSecure
  \/ DecryptPlain
  \/ DownloadDecrypted
  \/ DownloadPackage
  \/ GetPackageManifest
  \/ Clock

SpecSystem == InitSystem /\ [][NextSystem]_vars

\* sign and verify alone
InitPrimitives == TransferInit /\ SystemIdle /\ PrimitivesInit /\ KeysIdle /\ ConcurrentIdle

NextPrimitives ==
  \/ SignCall /\ UNCHANGED <<transferVars, systemVars>>
  \/ VerifyCall /\ UNCHANGED <<transferVars, systemVars>>

SpecPrimitives == InitPrimitives /\ [][NextPrimitives]_vars

(* ------------------------------------------------------------------ *)
(* Properties of the protocol                                         *)
(* ------------------------------------------------------------------ *)
WasOpened == opened.state = "opened"
CorrectKey == opened.key = PrivateKeyPem(pkg.recipient)
Returned == ~opened.result.threw
Result == opened.result.value

\* the bytes a base64 field of a manifest stands for
BytesOf(field) == base64ToBuffer(field).value

\* C1: round trip. Whatever file is built, by either entry point, for any
\* sender and recipient key pair: opening the envelope as built with the
\* recipient's private key returns exactly the file, with verified = true.
C1_RoundTrip ==
  (WasOpened /\ opened.manifest = pkg.manifest /\ CorrectKey)
    => /\ Returned
       /\ Result.fileBuffer = pkg.plaintext
       /\ Result.verified = TRUE

C1_Witness ==
  /\ WasOpened
  /\ opened.manifest = pkg.manifest
  /\ CorrectKey
  /\ pkg.sender # pkg.recipient
  /\ Returned
  /\ Result.fileBuffer = pkg.plaintext
  /\ Result.verified

CiphertextOrTagAltered ==
  \/ BytesOf(opened.manifest.encryptedFile.ciphertext)
       # BytesOf(pkg.manifest.encryptedFile.ciphertext)
  \/ BytesOf(opened.manifest.encryptedFile.authTag)
       # BytesOf(pkg.manifest.encryptedFile.authTag)

\* C2: ciphertext tamper detection. If the bytes of encryptedFile.ciphertext
\* or of encryptedFile.authTag of a built envelope are altered in any way,
\* opening with the recipient's private key fails with AuthenticationFailed
\* and returns no plaintext.
C2_TamperDetected ==
  (WasOpened /\ CorrectKey /\ CiphertextOrTagAltered)
    => /\ opened.result.threw
       /\ opened.result.error = "AuthenticationFailed"

\* the tag cut to its first four bytes: the open returns the file
C2_TruncatedTagAccepted ==
  /\ WasOpened
  /\ CorrectKey
  /\ BytesOf(opened.manifest.encryptedFile.authTag).len = 4
  /\ BytesOf(pkg.manifest.encryptedFile.authTag).len = AUTH_TAG_LENGTH
  /\ Returned
  /\ Result.fileBuffer = pkg.plaintext

\* C3: key isolation. Opening an envelope with any key other than the
\* private half of the recipient key it was built for fails with KeyMismatch
\* (the unwrap step) and returns no plaintext.
C3_KeyIsolation ==
  (WasOpened /\ ~CorrectKey)
    => /\ opened.result.threw
       /\ opened.result.error = "KeyMismatch"

C3_Witness ==
  /\ WasOpened
  /\ opened.manifest = pkg.manifest
  /\ IsPrivatePem(opened.key)
  /\ opened.key.id # pkg.recipient
  /\ opened.result.threw
  /\ opened.result.error = "KeyMismatch"

\* the envelope opened is the one built but for fileHash, which is now the
\* hex text of other bytes
OnlyFileHashReplaced ==
  /\ [opened.manifest EXCEPT !.fileHash = pkg.manifest.fileHash] = pkg.manifest
  /\ opened.manifest.fileHash # Absent
  /\ HexToBuffer(opened.manifest.fileHash) # HexToBuffer(pkg.manifest.fileHash)

\* C4: hash tamper detection. After a build, fileHash is replaced by an
\* unrelated 64-hex-character value; opening with the recipient's private
\* key still returns the decrypted file, with hashValid, signatureValid and
\* verified all false.
C4_HashTamper ==
  (WasOpened /\ CorrectKey /\ OnlyFileHashReplaced)
    => /\ Returned
       /\ Result.fileBuffer = pkg.plaintext
       /\ Result.hashValid = FALSE
       /\ Result.signatureValid = FALSE
       /\ Result.verified = FALSE

C4_Witness ==
  /\ WasOpened
  /\ CorrectKey
  /\ OnlyFileHashReplaced
  /\ opened.manifest.fileHash = ZeroHash
  /\ Returned
  /\ Result.fileBuffer = pkg.plaintext
  /\ ~Result.verified

\* the session keys somebody gets who holds what the builder returned, the
\* envelope, and the private keys of privateKeys
SessionKeysReturned == {pkg.returned[f] : f \in DOMAIN pkg.returned}
SessionKeysUnwrapped(privateKeys) ==
  {decryptWithPrivateKey(BytesOf(pkg.manifest.encryptedSessionKey), k).value :
     k \in {k \in privateKeys :
              ~decryptWithPrivateKey(BytesOf(pkg.manifest.encryptedSessionKey),
                                     k).threw}}
OtherPrivateKeys == {PrivateKeyPem(k) : k \in KeyIds \ {pkg.recipient}}

\* C5: confidentiality. Who knows the envelope, every public key, every
\* private key but the recipient's and everything the builder returned does
\* not have the session key: it comes only from unwrapping
\* encryptedSessionKey with the recipient's private key.
C5_SessionKeyConfidential ==
  pkg.state = "built"
    => /\ generateSessionKey(pkg.n) \notin SessionKeysReturned
       /\ generateSessionKey(pkg.n) \notin SessionKeysUnwrapped(OtherPrivateKeys)

\* executeUploadFlow hands the session key back in its result
C5_SessionKeyReturned ==
  /\ pkg.state = "built"
  /\ pkg.builder = "executeUploadFlow"
  /\ pkg.returned.sessionKey = generateSessionKey(pkg.n)
  /\ generateSessionKey(pkg.n) \notin SessionKeysUnwrapped(OtherPrivateKeys)
  /\ generateSessionKey(pkg.n)
       \in SessionKeysUnwrapped({PrivateKeyPem(pkg.recipient)})

DecryptHandlers == {"decryptPackage", "downloadDecryptedFile"}
ContentReturned == response.handler \in DecryptHandlers /\ response.status = 200
\* the verified flag of a response: in the JSON body or in X-File-Verified
CarriesVerified(r) ==
  \/ "verified" \in DOMAIN r.body
  \/ "XFileVerified" \in DOMAIN r.headers

\* C6: every response of the controller that returns decrypted file content
\* (a) comes from an open whose unwrap and AEAD decryption succeeded, and
\* (b) carries the verified flag whenever the content did not pass the hash
\* and signature check.
C6_ContentOnlyAfterOpen ==
  ContentReturned
    => /\ response.opened # Nothing
       /\ ~response.opened.threw
       /\ ~response.opened.value.verified => CarriesVerified(response)

\* the revisions of fileController.ts answer decryptPackage with the stored
\* file: nothing was opened and no flag is sent
C6_StoredFileReturned ==
  /\ ContentReturned
  /\ deployed \in PlainRevisions
  /\ response.opened = Nothing
  /\ ~CarriesVerified(response)

\* unwrap and AEAD decryption of the envelope opened, done apart
UnwrapOf == decryptSessionKey(BytesOf(opened.manifest.encryptedSessionKey), opened.key)
AeadOf == decryptFile(EncryptedDataOf(opened.manifest).value, UnwrapOf.value)
Decryptable == ~UnwrapOf.threw /\ ~AeadOf.threw

C8_VerifiedIffBoth ==
  (WasOpened /\ Returned)
    => /\ Result.verified = (Result.hashValid /\ Result.signatureValid)
       /\ Result.hashValid = (hash(Result.fileBuffer) = opened.manifest.fileHash)
       /\ Result.signatureValid
            = verify(BytesOf(opened.manifest.signature), opened.manifest.fileHash,
                     opened.manifest.uploaderPublicKey).value

\* upper-case hex in fileHash: the signature verifies, the hash comparison
\* does not
C8_Witness ==
  /\ WasOpened
  /\ Returned
  /\ Result.signatureValid
  /\ ~Result.hashValid
  /\ ~Result.verified

\* the signature given to verify is what sign put out, for the same bytes
\* of hash, under the private key of the key pair verify is given
SignedThatHashWithThatKey ==
  /\ ~signCall.result.threw
  /\ verifyCall.signature = signCall.result.value
  /\ verifyCall.hashToVerify # Absent
  /\ HexToBuffer(verifyCall.hashToVerify) = HexToBuffer(signCall.hashToSign)
  /\ IsKeyPem(verifyCall.publicKeyPem)
  /\ verifyCall.publicKeyPem.id = signCall.privateKeyPem.id

\* C9: verify is a total boolean predicate. For every signature, hash and
\* key, malformed or missing ones included, it returns true or false and
\* raises nothing; it returns true only for a signature made over that hash
\* by the private key of the key given.
C9_VerifyTotalAndSound ==
  verifyCall.state = "called"
    => /\ ~verifyCall.result.threw
       /\ verifyCall.result.value \in BOOLEAN
       /\ verifyCall.result.value => SignedThatHashWithThatKey

\* a malformed key and a missing signature: false, no error
C9_Witness ==
  /\ verifyCall.state = "called"
  /\ verifyCall.publicKeyPem = MalformedPem
  /\ verifyCall.signature = Absent
  /\ ~verifyCall.result.threw
  /\ verifyCall.result.value = FALSE

HoldsPrivateKey(v) == "pem" \in DOMAIN v /\ v.pem = "PRIVATE KEY"
PrivateKeyInManifest(m) ==
  \/ \E f \in DOMAIN m : HoldsPrivateKey(m[f])
  \/ \E f \in DOMAIN m.encryptedFile : HoldsPrivateKey(m.encryptedFile[f])
  \/ \E f \in DOMAIN m.metadata : HoldsPrivateKey(m.metadata[f])
PrivateKeyInArchive(zip) ==
  \/ PrivateKeyInManifest(parseManifest(zip.manifestJson))
  \/ \E f \in DOMAIN zip.readmeTxt : HoldsPrivateKey(zip.readmeTxt[f])

\* C10: no private key, the sender's or the recipient's, is in any field of
\* a manifest built, nor in any entry of an archive packed.
C10_NoPrivateKeyPacked ==
  pkg.state = "built"
    => /\ ~PrivateKeyInManifest(pkg.manifest)
       /\ pkg.builder = "createSecurePackage" => ~PrivateKeyInArchive(pkg.returned)

C10_Witness ==
  /\ pkg.state = "built"
  /\ pkg.builder = "createSecurePackage"
  /\ pkg.manifest.uploaderPublicKey = PublicKeyPem(pkg.sender)
  /\ parseManifest(pkg.returned.manifestJson) = pkg.manifest

\* C11: after a build, the raw session key is not in what the builder
\* returns: the key leaves the builder only wrapped, as encryptedSessionKey.
C11_RawKeyNotReturned ==
  pkg.state = "built"
    => /\ BytesOf(pkg.manifest.encryptedSessionKey).wrapped = generateSessionKey(pkg.n)
       /\ \A f \in DOMAIN pkg.returned : pkg.returned[f] # generateSessionKey(pkg.n)

\* the sessionKey field of UploadFlowResult is the key the envelope wraps
C11_RawKeyInResult ==
  /\ pkg.state = "built"
  /\ "sessionKey" \in DOMAIN pkg.returned
  /\ pkg.returned.sessionKey.len = AES_KEY_LENGTH
  /\ pkg.returned.sessionKey = BytesOf(pkg.manifest.encryptedSessionKey).wrapped

SameFields(a, b) ==
  /\ DOMAIN a = DOMAIN b
  /\ \A f \in DOMAIN a : a[f] = b[f]

\* deserialize(serialize(m)) against m, field for field
RoundTrips(m) ==
  LET back == parseManifest(serializeManifest(m))
  IN /\ DOMAIN back = DOMAIN m
     /\ \A f \in DOMAIN m \ {"encryptedFile", "metadata"} : back[f] = m[f]
     /\ SameFields(back.encryptedFile, m.encryptedFile)
     /\ SameFields(back.metadata, m.metadata)

\* C12: serialization round trip. For every envelope a build produces,
\* parsing its serialized text gives the envelope back: every top-level
\* field, every field of encryptedFile and every field of metadata.
C12_SerializationRoundTrip ==
  pkg.state = "built"
    => /\ RoundTrips(pkg.manifest)
       /\ tampers = 0 => SameFields(wire, pkg.manifest)

C12_Witness ==
  /\ pkg.state = "built"
  /\ pkg.builder = "executeUploadFlow"
  /\ tampers = 0
  /\ wire.metadata.timestamp = IsoString(pkg.n)
  /\ wire.version = Absent
  /\ wire.encryptedFile.ciphertext = pkg.manifest.encryptedFile.ciphertext

(* ------------------------------------------------------------------ *)
(* The codec, the packager and the other functions called on their    *)
(* own                                                                *)
(* ------------------------------------------------------------------ *)
Called(name) == call.state = "called" /\ call.name = name
otherThanCall == <<transferVars, systemVars, signCall, verifyCall, keyVars, concurrentVars>>

\* a file of no bytes (nothing in the builders or the controller refuses it)
EmptyFile == FileBuffer("")
BuildFiles == Plaintexts \cup {EmptyFile}

\* the envelope a sender s gets for r from an entry point
EnvelopeOf(builder, fileBuffer, s, r) ==
  IF builder = "createSecurePackage"
  THEN parseManifest(
         createSecurePackage(fileBuffer, DemoFilename, DemoMimeType, PrivateKeyPem(s),
                             PublicKeyPem(s), PublicKeyPem(r), 1, 1).value.manifestJson)
  ELSE LET returned == executeUploadFlow(fileBuffer, DemoFilename, DemoMimeType,
                                         PrivateKeyPem(s), PublicKeyPem(s),
                                         PublicKeyPem(r), 1, 1).value
       IN packageSecureData(returned.encryptedFile, returned.encryptedSessionKey,
                            returned.fileHash, returned.signature, PublicKeyPem(s),
                            DemoFilename, Size(fileBuffer), DemoMimeType, 1)

Envelopes ==
  {EnvelopeOf(builder, fileBuffer, s, r) :
     builder \in Builders, fileBuffer \in BuildFiles, s \in KeyIds, r \in KeyIds}

TopLevelFields ==
  {"version", "encryptedFile", "encryptedSessionKey", "fileHash", "signature",
   "uploaderPublicKey", "metadata"}
SubFields == {"ciphertext", "iv", "authTag"}

\* an envelope that lost a field on its way
WithoutField(m, field) == [m EXCEPT ![field] = Absent]
WithoutSubField(m, field) == [m EXCEPT !.encryptedFile[field] = Absent]

ValidateInputs ==
  Envelopes
    \cup {WithoutField(m, field) : m \in Envelopes, field \in TopLevelFields}
    \cup {WithoutSubField(m, field) : m \in Envelopes, field \in SubFields}

ValidateCall ==
  /\ \E manifest \in ValidateInputs :
       call' = [state |-> "called", name |-> "validateManifest",
                manifest |-> manifest,
                result |-> validateManifest(manifest),
                logged |-> validateManifestLogs(manifest)]
  /\ UNCHANGED otherThanCall

\* every required field is there
AllRequiredPresent(m) ==
  /\ \A i \in 1..Len(RequiredFields) : m[RequiredFields[i]] # Absent
  /\ \A i \in 1..Len(EncryptedFileFields) :
       m.encryptedFile[EncryptedFileFields[i]] # Absent

\* C13: validate accepts an envelope exactly when every required top-level
\* field and every one of encryptedFile.ciphertext, iv, authTag is present;
\* when it rejects, the failure names a field that is missing.
C13_ValidateIffPresent ==
  Called("validateManifest")
    => /\ call.result = AllRequiredPresent(call.manifest)
       /\ ~call.result
            => \/ /\ call.logged \in TopLevelFields
                  /\ call.manifest[call.logged] = Absent
               \/ /\ call.manifest.encryptedFile # Absent
                  /\ call.logged \in SubFields
                  /\ call.manifest.encryptedFile[call.logged] = Absent

\* the envelope of an empty file: every field is present, ciphertext is the
\* empty string, and validate rejects it, naming ciphertext
C13_EmptyCiphertextRejected ==
  /\ Called("validateManifest")
  /\ AllRequiredPresent(call.manifest)
  /\ call.manifest \in Envelopes
  /\ call.result = FALSE
  /\ call.logged = "ciphertext"

\* fileService.extractSecurePackage: "Funcion de extraccion no implementada
\* aun" is thrown for every archive and every key
extractSecurePackage(zipBuffer, recipientPrivateKey) == Throw("NotImplemented")

\* the archives createZipPackage packs, and archives without manifest.json
Archives ==
  {createZipPackage(m) : m \in Envelopes}
    \cup {[readmeTxt |-> Readme(m)] : m \in Envelopes}

Unpackers == {"extractSecurePackage", "getEntry"}

UnpackCall ==
  /\ \E zip \in Archives, unpacker \in Unpackers :
       call' = [state |-> "called", name |-> "unpack", by |-> unpacker, zip |-> zip,
                result |-> IF unpacker = "extractSecurePackage"
                           THEN extractSecurePackage(zip, PrivateKeyPem("B"))
                           ELSE ManifestEntry(zip)]
  /\ UNCHANGED otherThanCall

\* C14: unpacking an archive that has no manifest entry fails with
\* ManifestNotFound and gives no manifest; unpacking an archive that pack
\* made from a manifest text gives that text.
C14_Unpack ==
  Called("unpack")
    => IF "manifestJson" \in DOMAIN call.zip
       THEN /\ ~call.result.threw
            /\ call.result.value = call.zip.manifestJson
       ELSE /\ call.result.threw
            /\ call.result.error = "ManifestNotFound"
            /\ call.result.value = Nothing

\* the service's unpack, given an archive createZipPackage made: an error
C14_PackedArchiveNotUnpacked ==
  /\ Called("unpack")
  /\ call.by = "extractSecurePackage"
  /\ call.zip \in {createZipPackage(m) : m \in Envelopes}
  /\ call.result.threw
  /\ call.result.error = "NotImplemented"

\* keysController.generateFingerprint: sha256 of the PEM text, 16 hex chars
generateFingerprint(publicKey) == [first16 |-> hash(publicKey)]

\* step 2 of userService.setupUserKeys: crypto.hash(Buffer.from(publicKey)),
\* the whole digest
setupUserKeysFingerprint(publicKey) == hash(publicKey)

FingerprintPlaces == {"calculateKeyFingerprint", "generateFingerprint", "setupUserKeys"}
FingerprintKeys == {PublicKeyPem(k) : k \in KeyIds}

FingerprintCall ==
  /\ \E place \in FingerprintPlaces, publicKey \in FingerprintKeys :
       call' = [state |-> "called", name |-> "fingerprint", place |-> place,
                publicKey |-> publicKey,
                result |-> CASE place = "calculateKeyFingerprint" ->
                                  calculateKeyFingerprint(publicKey)
                             [] place = "generateFingerprint" ->
                                  generateFingerprint(publicKey)
                             [] place = "setupUserKeys" ->
                                  setupUserKeysFingerprint(publicKey)]
  /\ UNCHANGED otherThanCall

\* C15: every fingerprint computed for a public key is the first 16 hex
\* characters of hash(publicKeyPem), in the file service, in key
\* registration and in user key setup alike.
C15_FingerprintFirst16 ==
  Called("fingerprint") => call.result = [first16 |-> hash(call.publicKey)]

\* user key setup stores the whole 64-character digest
C15_WholeDigestAsFingerprint ==
  /\ Called("fingerprint")
  /\ call.place = "setupUserKeys"
  /\ call.result = hash(call.publicKey)
  /\ call.result # calculateKeyFingerprint(call.publicKey)

\* keys of 0, 16, 31, 32 and 33 bytes
KeyLengths == {0, 16, 31, 32, 33}
SymmetricKeys == {[generateSessionKey(1) EXCEPT !.len = l] : l \in KeyLengths}

\* what aesEncrypt gives for a file under the 32-byte key
EncryptedUnderSessionKey(buffer) ==
  aesEncrypt(buffer, generateSessionKey(1), RandomIv(1)).value

EncryptCall ==
  /\ \E buffer \in BuildFiles, key \in SymmetricKeys :
       call' = [state |-> "called", name |-> "aesEncrypt", buffer |-> buffer,
                key |-> key, result |-> aesEncrypt(buffer, key, RandomIv(1))]
  /\ UNCHANGED otherThanCall

DecryptCall ==
  /\ \E buffer \in BuildFiles, key \in SymmetricKeys :
       LET encrypted == EncryptedUnderSessionKey(buffer)
       IN call' = [state |-> "called", name |-> "aesDecrypt", buffer |-> buffer,
                   key |-> key,
                   result |-> aesDecrypt(encrypted.ciphertext, key, encrypted.iv,
                                         encrypted.authTag)]
  /\ UNCHANGED otherThanCall

\* C16: aesEncrypt and aesDecrypt, given a key that is not exactly 32 bytes
\* long, reject with InvalidKeyLength and give no ciphertext and no
\* plaintext; with the 32-byte key they give them.
C16_InvalidKeyLength ==
  (Called("aesEncrypt") \/ Called("aesDecrypt"))
    => IF call.key.len # 32
       THEN /\ call.result.threw
            /\ call.result.error = "InvalidKeyLength"
            /\ call.result.value = Nothing
       ELSE /\ ~call.result.threw
            /\ Called("aesEncrypt") => call.result.value.ciphertext.pt = call.buffer
            /\ Called("aesDecrypt") => call.result.value = call.buffer

C16_Witness ==
  /\ Called("aesEncrypt")
  /\ call.key.len = 31
  /\ call.result.threw
  /\ call.result.error = "InvalidKeyLength"

(* ------------------------------------------------------------------ *)
(* C17: expiry                                                        *)
(* ------------------------------------------------------------------ *)
ExpiredPackages == {p \in DOMAIN packagesDB : Expired(packagesDB[p])}

\* the step is the answer to a request that names packageId
AsksFor(packageId) ==
  \/ \E storageUp \in BOOLEAN, blobOk \in BOOLEAN :
       downloadPackage(packageId, storageUp, blobOk)
  \/ \E storageUp \in BOOLEAN : getPackageManifest(packageId, storageUp)
  \/ \E privateKey \in RequestKeys, storageUp \in BOOLEAN :
       \/ downloadDecryptedFile(packageId, privateKey, storageUp)
       \/ decryptPackagePlain(packageId, privateKey, storageUp)
  \/ /\ deployed \in SecureRevisions
     /\ \E privateKey \in RequestKeys, manifest \in ClientManifests \cup {Absent} :
          decryptPackageSecure(packageId, privateKey, manifest)

\* the manifest of a stored package, as a client got it before
ManifestsOf(packageId) ==
  {StoredManifest(packageId)}
    \cup {ApplyTamper(kind, StoredManifest(packageId)) : kind \in ClientTampers}

\* the step is the answer to a decryptPackage request that carries the
\* manifest of packageId, whatever package id the request names
SendsManifestOf(packageId) ==
  /\ deployed \in SecureRevisions
  /\ \E named \in RequestPackageIds, privateKey \in RequestKeys,
        manifest \in ManifestsOf(packageId) :
       decryptPackageSecure(named, privateKey, manifest)

ExpiredAnswer ==
  /\ response'.status = 410
  /\ response'.body = ErrorBody("El paquete ha expirado")
  /\ response'.opened = Nothing
  /\ metadataDB' = metadataDB

\* C17: once the current time is past a package's expiresAt, a request to
\* downloadPackage, downloadDecryptedFile, decryptPackage or
\* getPackageManifest for that package is answered 410, delivers neither
\* the archive, the manifest nor the plaintext, and leaves the download
\* counter as it was
C17_ExpiredAnswers410 ==
  [][\A packageId \in ExpiredPackages :
       (AsksFor(packageId) \/ SendsManifestOf(packageId)) => ExpiredAnswer]_vars

\* the plaintext of the expired pkg1 was sent by decryptPackage after pkg2,
\* uploaded after pkg1 expired, was stored
C17_ExpiredPlaintextDelivered ==
  /\ deployed \in SecureRevisions
  /\ PackageIds \subseteq DOMAIN packagesDB
  /\ packagesDB["pkg2"].uploadedAt > packagesDB["pkg1"].expiresAt
  /\ response.handler = "decryptPackage"
  /\ response.status = 200
  /\ response.body.data = bufferToBase64(FileBuffer("p1"))
  /\ hash(FileBuffer("p1")) = packagesDB["pkg1"].fileHash

(* ------------------------------------------------------------------ *)
(* /auth/initialize and /auth/setup-keys                              *)
(* Each await on the database is a step of its own: requests of the   *)
(* same user interleave between them.                                 *)
(* ------------------------------------------------------------------ *)
Endpoints == {"initialize", "setup-keys"}
Passwords == {Absent, Str("pw")}

\* crypto.generateKeyPair(): d names the draw, here the request that made it
generateKeyPair(d) == [publicKey |-> PublicKeyPem(d), privateKey |-> PrivateKeyPem(d)]

\* Buffer.from(crypto.hash(Buffer.from(password)), "hex"): 32 bytes
PasswordKey(password) ==
  [derived |-> HexToBuffer(hash(password)), len |-> AES_KEY_LENGTH, x |-> "intact"]

\* JSON.stringify of the three base64 fields
SerializedEncryptedKey(encrypted) ==
  [json |-> [ciphertext |-> bufferToBase64(encrypted.ciphertext),
             iv |-> bufferToBase64(encrypted.iv),
             authTag |-> bufferToBase64(encrypted.authTag)]]

\* userService.hasKeysConfigured: false also when the read fails
hasKeysConfigured(dbUp) ==
  /\ dbUp
  /\ TheUser \in DOMAIN userProfiles
  /\ userProfiles[TheUser].public_key # Nothing
  /\ userProfiles[TheUser].public_key # Str("")

Finish(r, status, body) ==
  requests' = [requests EXCEPT ![r].pc = "done", ![r].status = status, ![r].body = body]

otherThanKeys == <<transferVars, systemVars, primitiveVars, concurrentVars>>

\* the request arrives: token check, and for setup-keys the body check;
\* the requests are numbered as they arrive
Receive(r) ==
  \E endpoint \in Endpoints, tokenOk \in BOOLEAN,
     encryptPrivateKey \in BOOLEAN, password \in Passwords :
    /\ requests[r].pc = "idle"
    /\ r > 1 => requests[r - 1].pc # "idle"
    /\ endpoint = "initialize" => ~encryptPrivateKey /\ password = Absent
    /\ requests' =
         [requests EXCEPT ![r] =
            IF ~tokenOk
            THEN [@ EXCEPT !.endpoint = endpoint, !.pc = "done", !.status = 401,
                           !.body = ErrorBody("No autorizado")]
            ELSE IF encryptPrivateKey /\ password = Absent
            THEN [@ EXCEPT !.endpoint = endpoint, !.pc = "done", !.status = 400,
                           !.body = ErrorBody("Bad Request")]
            ELSE [@ EXCEPT !.endpoint = endpoint, !.pc = "hasKeysConfigured",
                           !.encryptPrivateKey = encryptPrivateKey,
                           !.password = password]]
    /\ UNCHANGED <<userProfiles, aesCalls, otherThanKeys>>

\* await userService.hasKeysConfigured(userId), and what runs until the next
\* await: the answer when there are keys, else steps 1 to 3 of setupUserKeys
HasKeysConfigured(r) ==
  \E dbUp \in BOOLEAN :
    LET request == requests[r]
        keyPair == generateKeyPair(r)
        passwordKey == PasswordKey(request.password)
        iv == RandomIv(r)
        encrypted == aesEncrypt(keyPair.privateKey, passwordKey, iv)
    IN /\ request.pc = "hasKeysConfigured"
       /\ IF hasKeysConfigured(dbUp)
          THEN /\ IF request.endpoint = "initialize"
                  THEN requests' = [requests EXCEPT ![r].pc = "getUserProfile"]
                  ELSE Finish(r, 409, ErrorBody("Conflicto"))
               /\ UNCHANGED aesCalls
          ELSE IF request.encryptPrivateKey /\ request.password # Absent
          THEN /\ requests' =
                    [requests EXCEPT ![r].pc = "selectProfile", ![r].keyPair = keyPair,
                                     ![r].encryptedPrivateKey =
                                        SerializedEncryptedKey(encrypted.value)]
               /\ aesCalls' = aesCalls \cup {[caller |-> "setupUserKeys", call |-> r,
                                             key |-> encrypted.value.ciphertext.key,
                                             iv |-> encrypted.value.iv]}
          ELSE /\ requests' =
                    [requests EXCEPT ![r].pc = "selectProfile", ![r].keyPair = keyPair]
               /\ UNCHANGED aesCalls
       /\ UNCHANGED <<userProfiles, otherThanKeys>>

\* initializeUser: await userService.getUserProfile(userId), then 200
GetUserProfile(r) ==
  \E dbUp \in BOOLEAN :
    /\ requests[r].pc = "getUserProfile"
    /\ IF dbUp
       THEN Finish(r, 200, [message |-> "Usuario ya inicializado",
                            public_key |-> userProfiles[TheUser].public_key])
       ELSE Finish(r, 500, ErrorBody("Error interno del servidor"))
    /\ UNCHANGED <<userProfiles, aesCalls, otherThanKeys>>

\* step 4 of setupUserKeys: select id from user_profiles
SelectProfile(r) ==
  \E dbUp \in BOOLEAN :
    /\ requests[r].pc = "selectProfile"
    /\ IF dbUp
       THEN requests' = [requests EXCEPT ![r].pc = "saveProfile",
                                         ![r].existingProfile =
                                            TheUser \in DOMAIN userProfiles]
       ELSE Finish(r, 500, ErrorBody("Error interno del servidor"))
    /\ UNCHANGED <<userProfiles, aesCalls, otherThanKeys>>

\* step 5 of setupUserKeys, update or insert, and the 201 answer; an insert
\* of a row whose id is there already fails
SaveProfile(r) ==
  \E dbUp \in BOOLEAN :
    LET request == requests[r]
        row == [public_key |-> request.keyPair.publicKey,
                encrypted_private_key |-> request.encryptedPrivateKey]
        saved == dbUp /\ (request.existingProfile \/ TheUser \notin DOMAIN userProfiles)
        created ==
          IF request.endpoint = "setup-keys" /\ request.encryptPrivateKey
          THEN [publicKey |-> request.keyPair.publicKey,
                encryptedPrivateKey |-> request.encryptedPrivateKey,
                fingerprint |-> setupUserKeysFingerprint(request.keyPair.publicKey)]
          ELSE [publicKey |-> request.keyPair.publicKey,
                privateKey |-> request.keyPair.privateKey,
                fingerprint |-> setupUserKeysFingerprint(request.keyPair.publicKey)]
    IN /\ request.pc = "saveProfile"
       /\ IF saved
          THEN /\ userProfiles' =
                    IF request.existingProfile
                    THEN [userProfiles EXCEPT ![TheUser] = row]
                    ELSE userProfiles @@ (TheUser :> row)
               /\ Finish(r, 201, created)
          ELSE /\ Finish(r, 500, ErrorBody("Error interno del servidor"))
               /\ UNCHANGED userProfiles
       /\ UNCHANGED <<aesCalls, otherThanKeys>>

\* the user's row exists without keys, or there is none
KeysInit ==
  /\ userProfiles \in {<<>>, (TheUser :> ProfileWithoutKeys)}
  /\ requests = [r \in RequestIds |-> IdleRequest]
  /\ aesCalls = {}

InitKeys == TransferInit /\ SystemIdle /\ PrimitivesInit /\ KeysInit /\ ConcurrentIdle

NextKeys ==
  \E r \in RequestIds :
    \/ Receive(r)
    \/ HasKeysConfigured(r)
    \/ GetUserProfile(r)
    \/ SelectProfile(r)
    \/ SaveProfile(r)

SpecKeys == InitKeys /\ [][NextKeys]_vars

(* ------------------------------------------------------------------ *)
(* C18                                                                *)
(* ------------------------------------------------------------------ *)
KeyPairsGenerated == {r \in RequestIds : requests[r].keyPair # Nothing}
StoredPublicKey ==
  IF TheUser \in DOMAIN userProfiles THEN userProfiles[TheUser].public_key ELSE Nothing
KeysHeld == StoredPublicKey # Nothing
HandedKeys(r) == requests[r].status = 201
HandedKeyMatches(r) == StoredPublicKey = PublicKeyPem(requests[r].keyPair.privateKey.id)

\* C18: whatever the order and the interleaving of /auth/initialize and
\* /auth/setup-keys requests of one user, at most one key pair is generated,
\* a stored public key is never replaced, and the private key a request handed
\* out belongs to the stored public key
C18_KeyInitIdempotent ==
  /\ [](Cardinality(KeyPairsGenerated) <= 1)
  /\ [](\A r \in RequestIds : HandedKeys(r) => HandedKeyMatches(r))
  /\ [][KeysHeld => StoredPublicKey' = StoredPublicKey]_vars

\* two requests were answered 201, each with its own private key
C18_TwoPrivateKeysHandedOut ==
  \E r1, r2 \in RequestIds :
    /\ HandedKeys(r1) /\ HandedKeys(r2)
    /\ ~HandedKeyMatches(r1)
    /\ HandedKeyMatches(r2)

(* ------------------------------------------------------------------ *)
(* C19: the order of the build steps                                  *)
(* ------------------------------------------------------------------ *)
\* the statements run one after the other until one throws
UntilThrow(steps) ==
  LET thrown == {i \in 1..Len(steps) : steps[i].threw}
  IN IF thrown = {} THEN steps
     ELSE SubSeq(steps, 1, CHOOSE i \in thrown : \A j \in thrown : i <= j)

\* steps 1 to 5 of fileService.createSecurePackage, as they are written
createSecurePackageSteps(fileBuffer, uploaderPrivateKey, recipientPublicKey, n) ==
  LET fileHash == hash(fileBuffer)
      signature == sign(fileHash, uploaderPrivateKey)
      sessionKey == generateSessionKey(n)
      encryptedFile == aesEncrypt(fileBuffer, sessionKey, RandomIv(n))
      encryptedSessionKey == encryptWithPublicKey(sessionKey, recipientPublicKey)
  IN UntilThrow(<<Step("hash", Return(fileHash)),
                  Step("sign", signature),
                  Step("generateSessionKey", Return(sessionKey)),
                  Step("encrypt", encryptedFile),
                  Step("wrap", encryptedSessionKey)>>)

\* Paso 1.1 to 1.5 of transferFlowService.executeUploadFlow, as they are written
executeUploadFlowSteps(fileBuffer, uploaderPrivateKey, recipientPublicKey, n) ==
  LET sessionKey == generateSessionKey(n)
      encryptedFile == aesEncrypt(fileBuffer, sessionKey, RandomIv(n))
      fileHash == hash(fileBuffer)
      signature == sign(fileHash, uploaderPrivateKey)
      encryptedSessionKey == encryptWithPublicKey(sessionKey, recipientPublicKey)
  IN UntilThrow(<<Step("generateSessionKey", Return(sessionKey)),
                  Step("encrypt", encryptedFile),
                  Step("hash", Return(fileHash)),
                  Step("sign", signature),
                  Step("wrap", encryptedSessionKey)>>)

BuildSenderKeys == {PrivateKeyPem("A"), MalformedPem}
BuildRecipientKeys == {PublicKeyPem("B"), MalformedPem}

BuildStepsCall ==
  /\ \E builder \in Builders, fileBuffer \in BuildFiles,
        uploaderPrivateKey \in BuildSenderKeys,
        recipientPublicKey \in BuildRecipientKeys :
       call' = [state |-> "called", name |-> "build", builder |-> builder,
                steps |-> IF builder = "createSecurePackage"
                          THEN createSecurePackageSteps(fileBuffer, uploaderPrivateKey,
                                                        recipientPublicKey, 1)
                          ELSE executeUploadFlowSteps(fileBuffer, uploaderPrivateKey,
                                                      recipientPublicKey, 1)]
  /\ UNCHANGED otherThanCall

MandatoryOrder == <<"hash", "sign", "generateSessionKey", "encrypt", "wrap">>

InMandatoryOrder(steps) ==
  /\ Len(steps) <= Len(MandatoryOrder)
  /\ \A i \in 1..Len(steps) : steps[i].step = MandatoryOrder[i]

HashBeforeEncryption(steps) ==
  \A i \in 1..Len(steps) :
    steps[i].step = "encrypt" => \E j \in 1..(i - 1) : steps[j].step = "hash"

\* C19: every build, from either entry point, runs hash, sign, session-key
\* generation, encryption and wrapping in this order, the hash before the
\* encryption
C19_MandatoryOrder ==
  Called("build") =>
    /\ InMandatoryOrder(call.steps)
    /\ HashBeforeEncryption(call.steps)

\* executeUploadFlow ran all five steps, the encryption before the hash
C19_EncryptedBeforeHashed ==
  /\ Called("build")
  /\ call.builder = "executeUploadFlow"
  /\ Len(call.steps) = 5
  /\ ~HashBeforeEncryption(call.steps)

NextCalls ==
  \/ ValidateCall
  \/ UnpackCall
  \/ FingerprintCall
  \/ EncryptCall
  \/ DecryptCall
  \/ BuildStepsCall

SpecCalls == Init /\ [][NextCalls]_vars

(* ------------------------------------------------------------------ *)
(* C20: builds and key set-ups in any order; aesCalls holds the key   *)
(* and the IV of every aesEncrypt call made                           *)
(* ------------------------------------------------------------------ *)
MaxEncryptedBuilds == 2

BuildsLogged == Cardinality({c \in aesCalls : c.caller \in Builders})

\* the draw of the k-th build: no request made it
DrawOfBuild(k) == MaxRequests + k

\* the encrypted file a builder hands back: in the archive's manifest for
\* createSecurePackage, in the result for executeUploadFlow
EncryptedFileBuiltBy(builder, fileBuffer, n) ==
  IF builder = "createSecurePackage"
  THEN EncryptedDataOf(parseManifest(
         createSecurePackage(fileBuffer, DemoFilename, DemoMimeType, PrivateKeyPem("A"),
                             PublicKeyPem("A"), PublicKeyPem("B"), n, 1).value.manifestJson)).value
  ELSE executeUploadFlow(fileBuffer, DemoFilename, DemoMimeType, PrivateKeyPem("A"),
                         PublicKeyPem("A"), PublicKeyPem("B"), n, 1).value.encryptedFile

\* a build: one session key and one IV are drawn, one aesEncrypt call is made
BuildEncrypts ==
  \E builder \in Builders, fileBuffer \in Plaintexts :
    LET k == BuildsLogged + 1
        encryptedFile == EncryptedFileBuiltBy(builder, fileBuffer, DrawOfBuild(k))
    IN /\ BuildsLogged < MaxEncryptedBuilds
       /\ aesCalls' = aesCalls \cup {[caller |-> builder, call |-> DrawOfBuild(k),
                                      key |-> encryptedFile.ciphertext.key,
                                      iv |-> encryptedFile.iv]}
       /\ UNCHANGED <<userProfiles, requests, otherThanKeys>>

NextEncryptions ==
  \/ NextKeys
  \/ BuildEncrypts

SpecEncryptions == InitKeys /\ [][NextEncryptions]_vars

KeyAndIv(c) == <<c.key, c.iv>>

\* C20: no two aesEncrypt calls use the same key with the same IV, and the
\* session key of a build is used by no other call
C20_NoKeyIvReuse ==
  \A c1, c2 \in aesCalls :
    c1.call # c2.call =>
      /\ KeyAndIv(c1) # KeyAndIv(c2)
      /\ c1.caller \in Builders => c1.key # c2.key

\* two key set-ups encrypted under the key of the same password, and both
\* builders encrypted a file
C20_Witness ==
  /\ \E c1, c2 \in aesCalls :
       /\ c1.call # c2.call
       /\ c1.caller = "setupUserKeys"
       /\ c1.key = c2.key
       /\ c1.iv # c2.iv
  /\ \A builder \in Builders : \E c \in aesCalls : c.caller = builder

(* ------------------------------------------------------------------ *)
(* C21: the order of the open steps                                   *)
(* ------------------------------------------------------------------ *)
OpenOrder == <<"unwrap", "decrypt", "hash", "verify">>

\* each step once, in the order of OpenOrder
InOpenOrder(steps) ==
  /\ Len(steps) \in 1..Len(OpenOrder)
  /\ \A i \in 1..Len(steps) : steps[i].step = OpenOrder[i]

\* no statement ran after one that threw
StoppedAtFailure(steps) == \A i \in 1..(Len(steps) - 1) : ~steps[i].threw

FailedAt(steps, name) == \E i \in 1..Len(steps) : steps[i].step = name /\ steps[i].threw

\* C21: an open runs unwrap, decrypt, hash, verify in this order, each at
\* most once; when the unwrap fails nothing else runs, when the decryption
\* fails neither the hash nor the signature check runs, and the open then
\* ends in an error without plaintext
C21_OpenAbortsInOrder ==
  WasOpened =>
    /\ InOpenOrder(opened.steps)
    /\ StoppedAtFailure(opened.steps)
    /\ FailedAt(opened.steps, "unwrap") => Len(opened.steps) = 1
    /\ FailedAt(opened.steps, "decrypt") => Len(opened.steps) = 2
    /\ (FailedAt(opened.steps, "unwrap") \/ FailedAt(opened.steps, "decrypt")) =>
         opened.result.threw /\ opened.result.value = Nothing

\* an open whose unwrap succeeded and whose decryption failed
C21_Witness ==
  /\ WasOpened
  /\ Len(opened.steps) = 2
  /\ ~opened.steps[1].threw
  /\ FailedAt(opened.steps, "decrypt")
  /\ opened.result.threw

(* ------------------------------------------------------------------ *)
(* C22: validation before opening                                     *)
(* ------------------------------------------------------------------ *)
\* the step answers a decryptPackage request that carries manifest and in
\* which the handler called decryptSecureFile
OpensManifest(manifest) ==
  /\ deployed \in SecureRevisions
  /\ response'.opened # Nothing
  /\ \E packageId \in RequestPackageIds, privateKey \in RequestKeys :
       decryptPackageSecure(packageId, privateKey, manifest)

\* C22: a handler calls decryptSecureFile only with a manifest for which
\* validateManifest returns true
C22_OpenedOnlyIfValidated ==
  [][(deployed \in SecureRevisions) =>
       (\A manifest \in ClientManifests :
          OpensManifest(manifest) => validateManifest(manifest))]_vars

\* decryptPackage answered 200 with the plaintext of a stored package
C22_PlaintextFromDecryptPackage ==
  /\ response.handler = "decryptPackage"
  /\ response.status = 200
  /\ response.opened # Nothing
  /\ \E packageId \in DOMAIN packagesDB :
       response.body.data = bufferToBase64(FileBuffer(IF packageId = "pkg1" THEN "p1" ELSE "p2"))

(* ------------------------------------------------------------------ *)
(* C23: what every envelope carries                                   *)
(* ------------------------------------------------------------------ *)
\* C23: every envelope a builder assembles carries the version "1.0", a
\* timestamp and the public key of its sender
C23_VersionTimestampSenderKey ==
  pkg.state = "built" =>
    /\ pkg.manifest.version = PROTOCOL_VERSION
    /\ ~Falsy(pkg.manifest.metadata.timestamp)
    /\ pkg.manifest.uploaderPublicKey = PublicKeyPem(pkg.sender)

\* packageSecureData assembled an envelope with timestamp and sender key
\* and without a version
C23_EnvelopeWithoutVersion ==
  /\ pkg.state = "built"
  /\ pkg.builder = "executeUploadFlow"
  /\ pkg.manifest.version = Absent
  /\ ~Falsy(pkg.manifest.metadata.timestamp)
  /\ pkg.manifest.uploaderPublicKey = PublicKeyPem(pkg.sender)

(* ------------------------------------------------------------------ *)
(* C24: opening does not write to the envelope                        *)
(* ------------------------------------------------------------------ *)
\* the step answers a decryptPackage request with this key and manifest
\* in which the handler called decryptSecureFile
DecryptPackageOpens(privateKey, manifest) ==
  /\ response'.opened # Nothing
  /\ \E packageId \in RequestPackageIds :
       decryptPackageSecure(packageId, privateKey, manifest)

\* C24: an open leaves every field of the envelope it was given as it was,
\* so that the envelope opened again with the same key gives the same
\* plaintext and the same verification result
C24_OpenLeavesEnvelope ==
  [][(deployed \in SecureRevisions) =>
       (\A privateKey \in RequestKeys, manifest \in ClientManifests :
          DecryptPackageOpens(privateKey, manifest) =>
            /\ NormalizedManifest(manifest) = manifest
            /\ response'.opened = decryptSecureFile(manifest, privateKey))]_vars

\* decryptPackage answered with a verified plaintext for an envelope whose
\* sender key it had rewritten; the envelope as sent does not verify
C24_OpenedRewrittenEnvelope ==
  /\ deployed \in SecureRevisions
  /\ response.handler = "decryptPackage"
  /\ response.status = 200
  /\ response.body.verified
  /\ \E packageId \in DOMAIN packagesDB, privateKey \in OpenKeys :
       LET sent == ApplyTamper("uploaderPublicKey.escaped", StoredManifest(packageId))
       IN /\ NormalizedManifest(sent) # sent
          /\ response.opened = decryptSecureFile(NormalizedManifest(sent), privateKey)
          /\ ~decryptSecureFile(sent, privateKey).threw
          /\ ~decryptSecureFile(sent, privateKey).value.verified

(* ------------------------------------------------------------------ *)
(* C25: builds and opens running at once                              *)
(* ------------------------------------------------------------------ *)
otherThanTasks == <<transferVars, systemVars, primitiveVars, keyVars, downloadVars>>

\* what the callers pass
TaskFiles == {FileBuffer("p1"), FileBuffer("p2")}
TaskSenderKeys == {"A"}
TaskRecipientKeys == {PublicKeyPem("B"), MalformedPem}
TaskOpenKeys == {PrivateKeyPem("B"), PrivateKeyPem("E")}

\* an envelope built before any of the calls followed here
StockEnvelope ==
  parseManifest(createSecurePackage(FileBuffer("p1"), DemoFilename, DemoMimeType,
                                    PrivateKeyPem("A"), PublicKeyPem("A"),
                                    PublicKeyPem("B"), 0, 0).value.manifestJson)

\* the envelopes of the builds that returned
BuiltEnvelopes ==
  {parseManifest(tasks[u].result.value.manifestJson) :
     u \in {v \in TaskIds : /\ tasks[v].op = "createSecurePackage"
                            /\ tasks[v].pc = "done"
                            /\ ~tasks[v].result.threw}}

SessionKeyOfFirstHolder(t) ==
  LET holders == {u \in TaskIds : tasks[u].sessionKey # Nothing}
  IN tasks[CHOOSE u \in holders : \A v \in holders : u <= v].sessionKey

\* const sessionKey: the local of call t
SessionKeyOf(t) == tasks[t].sessionKey

SetTask(t, task) == tasks' = [tasks EXCEPT ![t] = task]
TaskReturned(task, result) == [task EXCEPT !.pc = "done", !.result = result]

\* createSecurePackage, statements 1 and 2
BuildSign(t) ==
  \E fileBuffer \in TaskFiles, s \in TaskSenderKeys, recipientPublicKey \in TaskRecipientKeys :
    LET fileHash == hash(fileBuffer)
        signature == sign(fileHash, PrivateKeyPem(s))
        started == [IdleTask EXCEPT
                      !.op = "createSecurePackage",
                      !.input = [fileBuffer |-> fileBuffer,
                                 uploaderPrivateKey |-> PrivateKeyPem(s),
                                 uploaderPublicKey |-> PublicKeyPem(s),
                                 recipientPublicKey |-> recipientPublicKey],
                      !.fileHash = fileHash]
    IN /\ tasks[t].pc = "idle"
       /\ SetTask(t, IF signature.threw THEN TaskReturned(started, signature)
                     ELSE [started EXCEPT !.pc = "signed",
                                          !.signature = signature.value])
       /\ UNCHANGED otherThanTasks

\* statement 3: the random draw of call t
BuildKey(t) ==
  /\ tasks[t].op = "createSecurePackage"
  /\ tasks[t].pc = "signed"
  /\ SetTask(t, [tasks[t] EXCEPT !.pc = "keyed", !.sessionKey = generateSessionKey(t)])
  /\ UNCHANGED otherThanTasks

\* statements 4 and 5
BuildEncrypt(t) ==
  LET encryptedFile == aesEncrypt(tasks[t].input.fileBuffer, SessionKeyOf(t), RandomIv(t))
      encryptedSessionKey == encryptWithPublicKey(SessionKeyOf(t),
                                                  tasks[t].input.recipientPublicKey)
  IN /\ tasks[t].op = "createSecurePackage"
     /\ tasks[t].pc = "keyed"
     /\ SetTask(t, IF encryptedFile.threw THEN TaskReturned(tasks[t], encryptedFile)
                   ELSE IF encryptedSessionKey.threw
                   THEN TaskReturned(tasks[t], encryptedSessionKey)
                   ELSE [tasks[t] EXCEPT
                           !.pc = "encrypted",
                           !.encryptedFile = encryptedFile.value,
                           !.encryptedSessionKey = encryptedSessionKey.value])
     /\ UNCHANGED otherThanTasks

\* statement 6, and statement 7 up to its await
BuildManifest(t) ==
  /\ tasks[t].op = "createSecurePackage"
  /\ tasks[t].pc = "encrypted"
  /\ SetTask(t, [tasks[t] EXCEPT
                   !.pc = "zipping",
                   !.manifest =
                      PackageManifest(tasks[t].encryptedFile,
                                      tasks[t].encryptedSessionKey,
                                      tasks[t].fileHash, tasks[t].signature,
                                      tasks[t].input.uploaderPublicKey,
                                      DemoFilename,
                                      Size(tasks[t].input.fileBuffer),
                                      DemoMimeType, 0)])
  /\ UNCHANGED otherThanTasks

\* the promise of createZipPackage resolves and the call returns
BuildReturn(t) ==
  /\ tasks[t].op = "createSecurePackage"
  /\ tasks[t].pc = "zipping"
  /\ SetTask(t, TaskReturned(tasks[t], Return(createZipPackage(tasks[t].manifest))))
  /\ UNCHANGED otherThanTasks

\* decryptSecureFile, statement 1
OpenUnwrap(t) ==
  \E manifest \in BuiltEnvelopes \cup {StockEnvelope}, recipientPrivateKey \in TaskOpenKeys :
    LET encryptedSessionKey == base64ToBuffer(manifest.encryptedSessionKey)
        sessionKey == decryptWithPrivateKey(encryptedSessionKey.value,
                                            recipientPrivateKey)
        started == [IdleTask EXCEPT
                      !.op = "decryptSecureFile",
                      !.input = [manifest |-> manifest,
                                 recipientPrivateKey |-> recipientPrivateKey]]
    IN /\ tasks[t].pc = "idle"
       /\ SetTask(t, IF encryptedSessionKey.threw
                     THEN TaskReturned(started, encryptedSessionKey)
                     ELSE IF sessionKey.threw THEN TaskReturned(started, sessionKey)
                     ELSE [started EXCEPT !.pc = "unwrapped",
                                          !.sessionKey = sessionKey.value])
       /\ UNCHANGED otherThanTasks

\* statements 2 to 4
OpenDecrypt(t) ==
  LET manifest == tasks[t].input.manifest
      encryptedData == EncryptedDataOf(manifest)
      fileBuffer == aesDecrypt(encryptedData.value.ciphertext, SessionKeyOf(t),
                               encryptedData.value.iv, encryptedData.value.authTag)
      hashMatch == hash(fileBuffer.value) = manifest.fileHash
      signature == base64ToBuffer(manifest.signature)
      signatureValid == verify(signature.value, manifest.fileHash,
                               manifest.uploaderPublicKey)
  IN /\ tasks[t].op = "decryptSecureFile"
     /\ tasks[t].pc = "unwrapped"
     /\ SetTask(t, TaskReturned(tasks[t],
                     IF encryptedData.threw THEN encryptedData
                     ELSE IF fileBuffer.threw THEN fileBuffer
                     ELSE IF signature.threw THEN signature
                     ELSE IF signatureValid.threw THEN signatureValid
                     ELSE Return(OpenResult(fileBuffer.value, hashMatch,
                                            signatureValid.value,
                                            hashMatch /\ signatureValid.value))))
     /\ UNCHANGED otherThanTasks

NextTasks ==
  \E t \in TaskIds :
    \/ BuildSign(t)
    \/ BuildKey(t)
    \/ BuildEncrypt(t)
    \/ BuildManifest(t)
    \/ BuildReturn(t)
    \/ OpenUnwrap(t)
    \/ OpenDecrypt(t)

SpecTasks == Init /\ [][NextTasks]_vars

\* what call t returns when it runs with no other call in progress
RunAlone(t) ==
  IF tasks[t].op = "createSecurePackage"
  THEN createSecurePackage(tasks[t].input.fileBuffer, DemoFilename, DemoMimeType,
                           tasks[t].input.uploaderPrivateKey,
                           tasks[t].input.uploaderPublicKey,
                           tasks[t].input.recipientPublicKey, t, 0)
  ELSE decryptSecureFile(tasks[t].input.manifest, tasks[t].input.recipientPrivateKey)

\* the session key call t may hold: the one it drew, or the one wrapped in
\* the envelope it was given
OwnSessionKey(t) ==
  IF tasks[t].op = "createSecurePackage" THEN generateSessionKey(t)
  ELSE decryptWithPrivateKey(
         base64ToBuffer(tasks[t].input.manifest.encryptedSessionKey).value,
         tasks[t].input.recipientPrivateKey).value

\* C25: with builds and opens interleaved in any order, every call returns
\* what it returns when run alone on its inputs, every call works with its
\* own session key, and no two builds hold the same session key
C25_CallsIndependent ==
  /\ \A t \in TaskIds :
       /\ tasks[t].pc = "done" => tasks[t].result = RunAlone(t)
       /\ tasks[t].sessionKey # Nothing => tasks[t].sessionKey = OwnSessionKey(t)
       /\ tasks[t].pc = "encrypted" =>
            /\ tasks[t].encryptedFile.ciphertext.key = OwnSessionKey(t)
            /\ tasks[t].encryptedSessionKey.wrapped = OwnSessionKey(t)
  /\ \A t, u \in TaskIds :
       (/\ t # u
        /\ tasks[t].op = "createSecurePackage"
        /\ tasks[u].op = "createSecurePackage"
        /\ tasks[t].sessionKey # Nothing
        /\ tasks[u].sessionKey # Nothing) => tasks[t].sessionKey # tasks[u].sessionKey

\* while one build holds its session key another build has returned its
\* envelope and an open of that envelope has returned the plaintext
C25_Witness ==
  \E t, u, v \in TaskIds :
    /\ tasks[t].op = "createSecurePackage"
    /\ tasks[t].pc = "keyed"
    /\ tasks[u].op = "createSecurePackage"
    /\ tasks[u].pc = "done"
    /\ ~tasks[u].result.threw
    /\ tasks[v].op = "decryptSecureFile"
    /\ tasks[v].pc = "done"
    /\ ~tasks[v].result.threw
    /\ tasks[v].input.manifest = parseManifest(tasks[u].result.value.manifestJson)

(* ------------------------------------------------------------------ *)
(* C26: no key material in the server's records                       *)
(* ------------------------------------------------------------------ *)
\* the fields that hold a plain string, number or boolean
ScalarFields ==
  {"packageId", "uploadedAt", "expiresAt", "uploaderId", "status", "downloadCount",
   "package_id", "uploader_id", "allow_reshare", "require_auth"}

\* a private key, a session key (raw, wrapped, or derived from a password)
IsKeyMaterial(value) ==
  \/ "pem" \in DOMAIN value /\ value.pem = "PRIVATE KEY"
  \/ "pem" \in DOMAIN value /\ value.pem = "ESCAPED" /\ value.of.pem = "PRIVATE KEY"
  \/ "key" \in DOMAIN value /\ "len" \in DOMAIN value
  \/ "derived" \in DOMAIN value
  \/ "wrapped" \in DOMAIN value

\* the value or the bytes its base64 text stands for
HoldsKeyMaterial(value) ==
  \/ IsKeyMaterial(value)
  \/ "b64" \in DOMAIN value /\ IsKeyMaterial(value.b64)

NoKeyMaterialIn(table) ==
  \A id \in DOMAIN table :
    \A field \in DOMAIN table[id] \ ScalarFields : ~HoldsKeyMaterial(table[id][field])

\* C26: the package record, the metadata record and the row of the table
\* files written at upload hold no private key and no session key, raw or
\* wrapped
C26_NoKeyMaterialStored ==
  /\ NoKeyMaterialIn(packagesDB)
  /\ NoKeyMaterialIn(metadataDB)
  /\ NoKeyMaterialIn(filesTable)

\* an upload of the encrypting revision wrote all three records
C26_Witness ==
  /\ deployed = "authController"
  /\ "pkg1" \in DOMAIN packagesDB
  /\ "pkg1" \in DOMAIN metadataDB
  /\ "pkg1" \in DOMAIN filesTable
  /\ filesTable["pkg1"].master_encrypted_session_key = Str("dummy_key")
  /\ packagesDB["pkg1"].uploaderPublicKey = PublicKeyPem(SERVER_KEY)

(* ------------------------------------------------------------------ *)
(* C29: the two maps go together                                      *)
(* ------------------------------------------------------------------ *)
MapsGoTogether ==
  /\ DOMAIN packagesDB = DOMAIN metadataDB
  /\ \A packageId \in DOMAIN packagesDB :
       packagesDB[packageId].encryptedPath \in DOMAIN storage

RejectedUploadWritesNothing ==
  (response'.handler = "uploadFile" /\ response'.status \in {400, 500}) =>
    (packagesDB' = packagesDB /\ metadataDB' = metadataDB)

\* C29: packagesDB and metadataDB hold the same package ids at all times,
\* every id in them has its archive in the store, and an upload answered
\* 400 or 500 leaves both maps as they were
C29_MapsInStep ==
  /\ []MapsGoTogether
  /\ [][RejectedUploadWritesNothing]_vars

\* after one upload went through, a second was answered 500
C29_Witness ==
  /\ DOMAIN packagesDB = {"pkg1"}
  /\ DOMAIN metadataDB = {"pkg1"}
  /\ response.handler = "uploadFile"
  /\ response.status = 500

(* ------------------------------------------------------------------ *)
(* C28: downloads that fail do not count                              *)
(* ------------------------------------------------------------------ *)
DownloadHandlers == {"downloadPackage", "downloadDecryptedFile", "decryptPackage"}

\* the step answers a download request with an error status
DownloadFails ==
  /\ response'.handler \in DownloadHandlers
  /\ response'.status >= 400

\* C28: a download request answered with a 4xx or 5xx status leaves
\* downloadCount and status of every package as they were
C28_FailedDownloadNotCounted ==
  [][DownloadFails => metadataDB' = metadataDB]_vars

\* downloadPackage answered 500 and the package stored has a download
\* counted and the status "downloaded"
C28_Witness ==
  /\ deployed = "authController"
  /\ response.handler = "downloadPackage"
  /\ response.status = 500
  /\ DOMAIN metadataDB = {"pkg1"}
  /\ metadataDB["pkg1"].downloadCount = 1
  /\ metadataDB["pkg1"].status = "downloaded"

(* ------------------------------------------------------------------ *)
(* The bookkeeping of a download: notificationService                 *)
(* ------------------------------------------------------------------ *)
otherThanDownloads == <<transferVars, systemVars, primitiveVars, keyVars, tasks>>

DownloadUsers == {"anonymous", "u1"}
DeliveredFile == FileBuffer("p1")

\* what the handler answers once decryptSecureFile returned
DeliveryResponse == [status |-> 200, body |-> DeliveredFile]
FailureResponse ==
  [status |-> 500, body |-> ErrorBody("Error al descifrar y descargar el archivo")]

ReachesHandlerUncaught(failed) == failed

\* whether a failure inside a bookkeeping call reaches the handler: each
\* function has its own try/catch and the handler attaches .catch
ReachesHandler(failed) == FALSE

SetDownload(d, download) == downloads' = [downloads EXCEPT ![d] = download]

\* steps 5 to 8 of downloadDecryptedFile: the four calls are started one
\* after the other, each runs to its first await, and the file is sent.
\* configured: whether getSupabase() finds its settings (it throws if not)
Deliver(d) ==
  \E userId \in DownloadUsers, configured \in BOOLEAN :
    LET select == IF configured THEN Reading ELSE Settled
        insert == IF configured THEN Pending ELSE Settled
        authenticated == userId # "anonymous"
    IN /\ downloads[d].pc = "idle"
       /\ d > 1 => downloads[d - 1].pc # "idle"
       /\ SetDownload(d,
            [pc |-> "answered",
             userId |-> userId,
             response |-> IF ReachesHandler(~configured) THEN FailureResponse
                          ELSE DeliveryResponse,
             logDownload |-> insert,
             updateUserStats |-> IF authenticated THEN select ELSE NotStarted,
             updateDownloadCount |-> IF authenticated THEN select ELSE NotStarted,
             notifyFileDownloaded |-> IF authenticated THEN insert ELSE NotStarted])
       /\ UNCHANGED <<filePermissions, userStats, downloadLogs, otherThanDownloads>>

\* logDownload: the insert into download_logs settles; an error is logged
LogDownloadSettles(d) ==
  \E ok \in BOOLEAN :
    /\ downloads[d].logDownload = Pending
    /\ SetDownload(d, [downloads[d] EXCEPT !.logDownload = Settled])
    /\ downloadLogs' = IF ok THEN downloadLogs + 1 ELSE downloadLogs
    /\ UNCHANGED <<filePermissions, userStats, otherThanDownloads>>

\* updateDownloadCount: the select of the permission row returns
DownloadCountRead(d) ==
  \E found \in BOOLEAN :
    /\ downloads[d].updateDownloadCount = Reading
    /\ SetDownload(d, [downloads[d] EXCEPT
                         !.updateDownloadCount =
                            IF found THEN Writing(filePermissions.downloads_count)
                            ELSE Settled])
    /\ UNCHANGED <<filePermissions, userStats, downloadLogs, otherThanDownloads>>

\* updateDownloadCount: the update with newCount settles
DownloadCountWrite(d) ==
  \E ok \in BOOLEAN :
    /\ downloads[d].updateDownloadCount.at = "writing"
    /\ SetDownload(d, [downloads[d] EXCEPT !.updateDownloadCount = Settled])
    /\ filePermissions' =
         IF ok THEN [filePermissions EXCEPT
                       !.downloads_count = downloads[d].updateDownloadCount.read + 1]
         ELSE filePermissions
    /\ UNCHANGED <<userStats, downloadLogs, otherThanDownloads>>

\* updateUserStats: the select of the profile returns
UserStatsRead(d) ==
  \E found \in BOOLEAN :
    /\ downloads[d].updateUserStats = Reading
    /\ SetDownload(d, [downloads[d] EXCEPT
                         !.updateUserStats =
                            IF found THEN Writing(userStats.total_downloads)
                            ELSE Settled])
    /\ UNCHANGED <<filePermissions, userStats, downloadLogs, otherThanDownloads>>

\* updateUserStats: the update of total_downloads settles
UserStatsWrite(d) ==
  \E ok \in BOOLEAN :
    /\ downloads[d].updateUserStats.at = "writing"
    /\ SetDownload(d, [downloads[d] EXCEPT !.updateUserStats = Settled])
    /\ userStats' =
         IF ok THEN [userStats EXCEPT
                       !.total_downloads = downloads[d].updateUserStats.read + 1]
         ELSE userStats
    /\ UNCHANGED <<filePermissions, downloadLogs, otherThanDownloads>>

\* notifyFileDownloaded: the profile is read and the notification created,
\* or an error is logged; the rows of notifications are not followed
NotifySettles(d) ==
  /\ downloads[d].notifyFileDownloaded = Pending
  /\ SetDownload(d, [downloads[d] EXCEPT !.notifyFileDownloaded = Settled])
  /\ UNCHANGED <<filePermissions, userStats, downloadLogs, otherThanDownloads>>

NextDownloads ==
  \E d \in DownloadIds :
    \/ Deliver(d)
    \/ LogDownloadSettles(d)
    \/ DownloadCountRead(d)
    \/ DownloadCountWrite(d)
    \/ UserStatsRead(d)
    \/ UserStatsWrite(d)
    \/ NotifySettles(d)

SpecDownloads == Init /\ [][NextDownloads]_vars

(* ------------------------------------------------------------------ *)
(* C27: counting downloads that run at once                           *)
(* ------------------------------------------------------------------ *)
BookkeepingCalls ==
  {"logDownload", "updateUserStats", "updateDownloadCount", "notifyFileDownloaded"}

\* every request followed was answered and every promise has settled
AllSettled ==
  \A d \in DownloadIds :
    /\ downloads[d].pc = "answered"
    /\ \A c \in BookkeepingCalls : downloads[d][c] \in {NotStarted, Settled}

AuthenticatedDownloads ==
  {d \in DownloadIds : /\ downloads[d].pc = "answered"
                       /\ downloads[d].response.status = 200
                       /\ downloads[d].userId # "anonymous"}

\* C27: once the downloads have run, downloads_count of the permission row
\* and total_downloads of the profile are higher by the number of
\* successful authenticated downloads
C27_EveryDownloadCounted ==
  AllSettled =>
    /\ filePermissions.downloads_count = Cardinality(AuthenticatedDownloads)
    /\ userStats.total_downloads = Cardinality(AuthenticatedDownloads)

\* two authenticated downloads have read the same downloads_count and
\* each is about to write that count plus one
C27_BothReadSameCount ==
  /\ AuthenticatedDownloads = {1, 2}
  /\ downloads[1].updateDownloadCount = Writing(0)
  /\ downloads[2].updateDownloadCount = Writing(0)

(* ------------------------------------------------------------------ *)
(* C30: the bookkeeping is best effort                                *)
(* ------------------------------------------------------------------ *)
Answered(d) == downloads[d].pc = "answered"

====
